---- MODULE Spec2Model ----
(***************************************************************************)
(* A model of the pleb-r1 Nostr relay (services/relay-engine and           *)
(* services/nostr-types).                                                  *)
(*                                                                         *)
(*   Spec      the relay binary of main.rs: sessions (handle_websocket),   *)
(*             the subscription registry (AppState.subscriptions), the     *)
(*             event table (PostgresDatabase) and the rate limiter.        *)
(*   SpecRate  the rate limiter of rate_limiter.rs with a clock.           *)
(*   SpecWs    the RelayServer of websocket.rs / connection.rs /           *)
(*             event_handler.rs (ConnectionManager and its fanout).        *)
(***************************************************************************)
EXTENDS Integers, Sequences, FiniteSets, TLC

VARIABLES
    pc,             \* main.rs: position of each session's handle_websocket task
    frame,          \* main.rs: the inbound frame a session is handling (or handled last)
    sent,           \* main.rs: the frames written to the session's socket for that frame
    subscriptions,  \* AppState.subscriptions: client_id -> (filter_key -> Filter)
    events_tbl,     \* the rows of table `events`, in insertion order
    pending,        \* history: live deliveries owed by an accepted event
    entries,        \* RateLimiter.entries: ip -> RateLimitEntry
    clock,          \* Instant::now(), in seconds
    next_sweep,     \* RateLimiter::new: the next deadline of the sweep's interval
    evAdm, evDen, evBase, evSpaced, evLast, evLastOk,  \* history of check_event_rate
    quAdm, quDen, quBase,                              \* history of check_query_rate
    wsPc,           \* websocket.rs: position of each connection's inbound task
    wsFrame,        \* websocket.rs: the EVENT being broadcast or the REQ being registered
    wsConns,        \* ConnectionManager.connections (the ids)
    wsSubs,         \* Connection.subscriptions: subscription_id -> filters
    wsRx,           \* handle_socket: the outbound task's receiver is subscribed
    wsQueue,        \* the frames the outbound receiver has not yet written
    wsClosed,       \* history: the subscription ids closed and not added again
    wsEcho,         \* history: what send_message was given, for each connection, since its latest accepted EVENT
    attPc,          \* handle_websocket: position of each connection attempt (SpecConn)
    lastRemove,     \* history: the last remove_connection call, its count before and after
    chIn,           \* websocket.rs: the inbound task of one connection
    chTodo,         \* websocket.rs: the replies the inbound task has still to send for its frame
    chOut,          \* websocket.rs: the outbound task of that connection
    chJoined,       \* websocket.rs: select! returned and the connection was removed
    chQueue,        \* connection.rs: the messages the broadcast channel retains for the outbound receiver
    chLagged,       \* connection.rs: the outbound receiver has been overtaken
    chFrames,       \* history: the kinds of the inbound frames handled, in order
    chLive,         \* history: number of events dispatched to the connection by other sessions
    chWire,         \* history: the messages written to the socket, in order
    chLost,         \* history: the messages sent that can no longer be written
    violations,     \* history: per session, its undecodable frames and whether one was oversized
    subscription_count, \* metrics.rs: the gauge relay_active_subscriptions, as the sessions of SpecGauge drive it
    ehAuth,         \* connection.rs: authenticated and pubkey of each connection
    ehAuthBy,       \* history: the AUTH event that authenticated each connection
    ehStored,       \* history: the store_event calls that succeeded, with the sender's state
    ehReply,        \* websocket.rs: the last OK sent to each connection, and for which event
    fnCall,         \* nostr-types: the last call of a function of the library, with its result
    cmConns,        \* ConnectionManager.connections, as the inactivity sweep sees it (the ids)
    cmLast,         \* Connection.last_activity of each connection (-1: not created yet)
    cmClock,        \* Instant::now() of the connection manager's view
    cmSweep,        \* cleanup_inactive_connections: its phase, its `now`, the ids to scan, to_remove
    cmRemoved       \* history: the removals of the sweep, with last_activity and the time at removal

relayVars == <<pc, frame, sent, subscriptions, events_tbl, pending>>
timeVars == <<clock, next_sweep>>
limiterVars == <<entries, timeVars>>
rateHist == <<evAdm, evDen, evBase, evSpaced, evLast, evLastOk, quAdm, quDen, quBase>>
wsVars == <<wsPc, wsFrame, wsConns, wsSubs, wsRx, wsQueue, wsClosed, wsEcho>>
connVars == <<attPc, lastRemove>>
chanVars == <<chIn, chTodo, chOut, chJoined, chQueue, chLagged, chFrames, chLive, chWire, chLost>>
ehVars == <<ehAuth, ehAuthBy, ehStored, ehReply>>
cmVars == <<cmConns, cmLast, cmClock, cmSweep, cmRemoved>>
vars == <<relayVars, limiterVars, rateHist, wsVars, connVars, chanVars, cmVars, violations, subscription_count, ehVars, fnCall>>

(***************************************************************************)
(* Program constants.  The thresholds are configuration: the values are    *)
(* those of the configurations built in the limiter's own tests.           *)
(***************************************************************************)
MaxSubscriptionsPerConnection == 20
MaxEventSize == 65536
MaxTagsCount == 2000
MaxTagValueLength == 1024
MaxContentLength == 65536
EventsPerMinute == 2
QueriesPerMinute == 2
ConnectionsPerIp == 2
WindowSecs == 60
CleanupIntervalSecs == 300
QueryLimit == 100

(***************************************************************************)
(* Bounds of the model.                                                    *)
(***************************************************************************)
TimeStep == 100     \* the clock advances in steps of this many seconds
MaxTime == 400      \* the clock stops here
MaxDenied == 2      \* denied admissions counted per address and window
MaxConnections == 1 \* add_connection is not called beyond this count
MaxQueue == 1       \* frames waiting for a connection's outbound task
ChannelCapacity == 2 \* Connection::new: broadcast::channel(1000), scaled down
MaxFrames == 3      \* inbound frames of the connection of SpecChan
MaxStored == 1      \* stored events a REQ of SpecChan returns
MaxSubs == 21       \* subscriptions the connection of SpecSubs asks for
Now == 1700000000   \* the wall clock when Event::validate runs
MaxViolations == 6  \* undecodable frames a session of SpecViol sends
MaxLive == 1        \* events other sessions dispatch to the connection of SpecChan
MaxGauge == 2       \* REQs are not handled while the gauge is this far from zero
TimeoutSecs == 100  \* timeout_secs handed to cleanup_inactive_connections

Clients == {"c1", "c2"}
Ips == {"ip1"}
ClientIp == [c \in Clients |-> "ip1"]
WsPublishers == {"c1"}      \* the connections that send EVENT (websocket.rs)
WsSubscribers == {"c2"}     \* the connections that send REQ and CLOSE (websocket.rs)
Attempts == {"a1", "a2", "a3"}  \* concurrent connection attempts of one address (SpecConn)
AttemptIp == [a \in Attempts |-> "ip1"]

\* ------------------------------------------------------------ maps (HashMap)

EmptyMap == [k \in {} |-> 0]
Put(m, k, v) == [x \in DOMAIN m \cup {k} |-> IF x = k THEN v ELSE m[x]]
RemoveKeys(m, ks) == [x \in DOMAIN m \ ks |-> m[x]]

\* ------------------------------------------------------------ events, filters

\* Option<T> is the empty set (None) or a singleton (Some).
None == {}
Some(x) == {x}

E1 == [id |-> "e1", pubkey |-> "pk1", created_at |-> 100, kind |-> 1,
       tags |-> <<>>, content |-> "hello", sig |-> "good"]
E2 == [id |-> "e2", pubkey |-> "pk2", created_at |-> 200, kind |-> 7,
       tags |-> <<>>, content |-> "+", sig |-> "good"]
E3 == [id |-> "e3", pubkey |-> "pk1", created_at |-> 100, kind |-> 1,
       tags |-> <<>>, content |-> "hello", sig |-> "bad"]
Events == {E1, E2, E3}

\* events of a replaceable kind (same pubkey and kind) and of an ephemeral kind
E4 == [id |-> "e4", pubkey |-> "pk1", created_at |-> 100, kind |-> 10000,
       tags |-> <<>>, content |-> "old", sig |-> "good"]
E5 == [id |-> "e5", pubkey |-> "pk1", created_at |-> 200, kind |-> 10000,
       tags |-> <<>>, content |-> "new", sig |-> "good"]
E6 == [id |-> "e6", pubkey |-> "pk1", created_at |-> 100, kind |-> 20000,
       tags |-> <<>>, content |-> "typing", sig |-> "good"]
KindEvents == {E4, E5, E6}

\* Event::is_ephemeral, Event::is_replaceable
IsEphemeral(e) == e.kind >= 20000 /\ e.kind <= 29999
IsReplaceable(e) == e.kind >= 10000 /\ e.kind <= 19999

\* event.verify(): the id and the signature are checked.
Verify(e) == e.sig = "good"

NoFilter == [ids |-> None, authors |-> None, kinds |-> None, since |-> None,
             until |-> None, limit |-> None, tags |-> EmptyMap]
FKind1 == [NoFilter EXCEPT !.kinds = Some({1})]
FAuthor2 == [NoFilter EXCEPT !.authors = Some({"pk2"})]
FSince150 == [NoFilter EXCEPT !.since = Some(150)]
FilterLists == {<<FKind1, FAuthor2>>, <<FSince150>>}
FPk1 == [NoFilter EXCEPT !.authors = Some({"pk1"})]
FIdE1 == [NoFilter EXCEPT !.ids = Some({"e1"})]
FLimit1 == [NoFilter EXCEPT !.limit = Some(1)]
QueryFilters == {NoFilter, FKind1, FAuthor2, FSince150, FIdE1, FLimit1}

\* filters outside the bounds of FilterValidator
FLimitHigh == [NoFilter EXCEPT !.limit = Some(5001)]
FBadRange == [NoFilter EXCEPT !.since = Some(200), !.until = Some(100)]
FWideRange == [NoFilter EXCEPT !.since = Some(0), !.until = Some(2592001)]
PolicyFilterLists == {<<>>, <<FLimitHigh>>, <<FBadRange>>, <<FKind1, FWideRange>>}

\* FilterValidator::validate_single_filter, validate_subscription_filters
ValidateSingleFilter(f) ==
    IF \E limit \in f.limit : limit > 5000
    THEN "Filter limit too high (max 5000)"
    ELSE IF \E since \in f.since, until \in f.until : since >= until
    THEN "Invalid time range: since >= until"
    ELSE IF \E since \in f.since, until \in f.until :
               /\ until - since > 86400 * 30
               /\ f.ids = None /\ f.authors = None /\ f.kinds = None
    THEN "Time range too large without other constraints"
    ELSE IF \E ids \in f.ids : Cardinality(ids) > 1000
    THEN "Too many IDs in filter"
    ELSE IF \E authors \in f.authors : Cardinality(authors) > 1000
    THEN "Too many authors in filter"
    ELSE IF \E kinds \in f.kinds : Cardinality(kinds) > 20
    THEN "Too many kinds in filter"
    ELSE "ok"
ValidateSubscriptionFilters(filters) ==
    IF filters = <<>> THEN "At least one filter is required"
    ELSE IF Len(filters) > 10 THEN "Too many filters in subscription"
    ELSE IF \E i \in 1..Len(filters) : ValidateSingleFilter(filters[i]) # "ok"
    THEN LET i == CHOOSE i \in 1..Len(filters) :
                      /\ ValidateSingleFilter(filters[i]) # "ok"
                      /\ \A j \in 1..(i - 1) : ValidateSingleFilter(filters[j]) = "ok"
         IN  ValidateSingleFilter(filters[i])
    ELSE "ok"

\* Filter::matches
TagMatches(tag, name, values) ==
    /\ Len(tag) >= 1
    /\ tag[1] = name
    /\ \E i \in 2..Len(tag) : tag[i] \in values
\* a filter whose since bound is exclusive
MatchesSinceExclusive(f, e) ==
    /\ \A ids \in f.ids : e.id \in ids
    /\ \A authors \in f.authors : e.pubkey \in authors
    /\ \A kinds \in f.kinds : e.kind \in kinds
    /\ \A since \in f.since : e.created_at > since
    /\ \A until \in f.until : ~(e.created_at > until)
    /\ \A name \in DOMAIN f.tags :
          \E i \in 1..Len(e.tags) : TagMatches(e.tags[i], name, f.tags[name])

Matches(f, e) ==
    /\ \A ids \in f.ids : e.id \in ids
    /\ \A authors \in f.authors : e.pubkey \in authors
    /\ \A kinds \in f.kinds : e.kind \in kinds
    /\ \A since \in f.since : ~(e.created_at < since)
    /\ \A until \in f.until : ~(e.created_at > until)
    /\ \A name \in DOMAIN f.tags :
          \E i \in 1..Len(e.tags) : TagMatches(e.tags[i], name, f.tags[name])

\* Subscription ids are strings; a string is a sequence of characters here,
\* so that format!("{}:{}", subscription_id, i) and starts_with are modelled.
SubA == <<"a">>
SubAB == <<"a", ":", "b">>
SubIds == {SubA, SubAB}

Digit(i) == CASE i = 0 -> "0" [] i = 1 -> "1" [] i = 2 -> "2" [] OTHER -> "9"
FilterKey(sub, i) == sub \o <<":", Digit(i)>>
StartsWith(s, p) == Len(s) >= Len(p) /\ SubSeq(s, 1, Len(p)) = p
SubOfKey(k) == SubSeq(k, 1, Len(k) - 2)

\* ------------------------------------------------------------ relay frames

OkMsg(id, status, msg) == [t |-> "OK", id |-> id, status |-> status, msg |-> msg]
NoticeMsg(msg) == [t |-> "NOTICE", msg |-> msg]
EventMsg(sub, e) == [t |-> "EVENT", sub |-> sub, ev |-> e]
EoseMsg(sub) == [t |-> "EOSE", sub |-> sub]

\* ------------------------------------------------------------ rate limiter

\* RateLimitEntry::new
NewEntry(now) == [events |-> <<>>, queries |-> <<>>, connections |-> 0, last_cleanup |-> now]

\* entries.entry(ip).or_insert_with(RateLimitEntry::new)
EntryOrInsert(ents, ip, now) == IF ip \in DOMAIN ents THEN ents ELSE Put(ents, ip, NewEntry(now))

Retain(s, cutoff) == SelectSeq(s, LAMBDA t : t > cutoff)

\* RateLimitEntry::cleanup_old_entries
CleanupOldEntries(e, window, now) ==
    [e EXCEPT !.events = Retain(@, now - window),
              !.queries = Retain(@, now - window),
              !.last_cleanup = now]

\* RateLimitEntry::should_cleanup
ShouldCleanup(e, interval, now) == now - e.last_cleanup > interval

CleanupIfNeeded(e, now) ==
    IF ShouldCleanup(e, CleanupIntervalSecs, now)
    THEN CleanupOldEntries(e, WindowSecs, now)
    ELSE e

\* check_event_rate whose denied calls are recorded as well
CheckEventRateRecording(ents, ip, now) ==
    LET m == EntryOrInsert(ents, ip, now)
        e == CleanupIfNeeded(m[ip], now)
    IN  [ok |-> Len(e.events) < EventsPerMinute,
         entries |-> [m EXCEPT ![ip] = [e EXCEPT !.events = Append(@, now)]]]

\* RateLimiter::check_event_rate: the answer and the entries afterwards.
CheckEventRate(ents, ip, now) ==
    LET m == EntryOrInsert(ents, ip, now)
        e == CleanupIfNeeded(m[ip], now)
    IN  IF Len(e.events) >= EventsPerMinute
        THEN [ok |-> FALSE, entries |-> [m EXCEPT ![ip] = e]]
        ELSE [ok |-> TRUE,
              entries |-> [m EXCEPT ![ip] = [e EXCEPT !.events = Append(@, now)]]]

\* RateLimiter::check_query_rate
CheckQueryRate(ents, ip, now) ==
    LET m == EntryOrInsert(ents, ip, now)
        e == CleanupIfNeeded(m[ip], now)
    IN  IF Len(e.queries) >= QueriesPerMinute
        THEN [ok |-> FALSE, entries |-> [m EXCEPT ![ip] = e]]
        ELSE [ok |-> TRUE,
              entries |-> [m EXCEPT ![ip] = [e EXCEPT !.queries = Append(@, now)]]]

\* RateLimiter::check_connection_limit
CheckConnectionLimit(ents, ip, now) ==
    LET m == EntryOrInsert(ents, ip, now)
    IN  [ok |-> ~(m[ip].connections >= ConnectionsPerIp), entries |-> m]

\* add_connection that starts the entry of the address anew
AddConnectionAnew(ents, ip, now) ==
    Put(ents, ip, [NewEntry(now) EXCEPT !.connections = 1])

\* RateLimiter::add_connection
AddConnection(ents, ip, now) ==
    LET m == EntryOrInsert(ents, ip, now)
    IN  [m EXCEPT ![ip].connections = @ + 1]

\* remove_connection that decrements the count without looking at it
RemoveConnectionUnchecked(ents, ip) ==
    IF ip \in DOMAIN ents
    THEN [ents EXCEPT ![ip].connections = @ - 1]
    ELSE ents

\* RateLimiter::remove_connection
RemoveConnection(ents, ip) ==
    IF ip \in DOMAIN ents /\ ents[ip].connections > 0
    THEN [ents EXCEPT ![ip].connections = @ - 1]
    ELSE ents

\* a sweep that looks at the timestamps only
KeepEntryActive(e) == Len(e.events) > 0 \/ Len(e.queries) > 0

\* RateLimiter::cleanup_task: one sweep.
SweptEntry(e, now) == CleanupOldEntries(e, WindowSecs, now)
KeepEntry(e) == Len(e.events) > 0 \/ Len(e.queries) > 0 \/ e.connections > 0
CleanupTaskResult(ents, now) ==
    LET kept == {ip \in DOMAIN ents : KeepEntry(SweptEntry(ents[ip], now))}
    IN  [ip \in kept |-> SweptEntry(ents[ip], now)]

\* --- the limiter driven directly, with a clock (SpecRate)

Held(ents, ip) == IF ip \in DOMAIN ents THEN ents[ip] ELSE NewEntry(0)
Pruned(ip) == ip \in DOMAIN entries /\ ShouldCleanup(entries[ip], CleanupIntervalSecs, clock)

\* History of one address after a call that admitted (ok) or denied, and that
\* pruned the entry first (pruned) or not: the counts start again at a pruning.
Counted(adm, den, base, ip, pruned, ok, len) ==
    [adm  |-> [adm EXCEPT ![ip] = (IF pruned THEN 0 ELSE @) + (IF ok THEN 1 ELSE 0)],
     den  |-> [den EXCEPT ![ip] = (IF pruned THEN 0 ELSE @) + (IF ok THEN 0 ELSE 1)],
     base |-> [base EXCEPT ![ip] = IF pruned THEN len - (IF ok THEN 1 ELSE 0) ELSE @]]
Restarted(adm, den, base, ip, pruned, len) ==
    [adm  |-> [adm EXCEPT ![ip] = IF pruned THEN 0 ELSE @],
     den  |-> [den EXCEPT ![ip] = IF pruned THEN 0 ELSE @],
     base |-> [base EXCEPT ![ip] = IF pruned THEN len ELSE @]]

RlCheckEvent(ip) ==
    LET r == CheckEventRate(entries, ip, clock)
        h == Counted(evAdm, evDen, evBase, ip, Pruned(ip), r.ok, Len(r.entries[ip].events))
        q == Restarted(quAdm, quDen, quBase, ip, Pruned(ip), Len(r.entries[ip].queries))
    IN  /\ h.den[ip] <= MaxDenied
        /\ entries' = r.entries
        /\ evAdm' = h.adm /\ evDen' = h.den /\ evBase' = h.base
        /\ quAdm' = q.adm /\ quDen' = q.den /\ quBase' = q.base
        /\ LET spaced == evSpaced[ip] /\ (evLast[ip] < 0 \/ clock - evLast[ip] > WindowSecs)
           IN  /\ evSpaced' = [evSpaced EXCEPT ![ip] = spaced]
               /\ evLast' = [evLast EXCEPT ![ip] = IF spaced THEN clock ELSE -1]
               /\ evLastOk' = [evLastOk EXCEPT ![ip] = spaced => r.ok]
        /\ UNCHANGED <<relayVars, wsVars, connVars, timeVars, chanVars, cmVars, violations, subscription_count, ehVars, fnCall>>

RlCheckQuery(ip) ==
    LET r == CheckQueryRate(entries, ip, clock)
        h == Counted(quAdm, quDen, quBase, ip, Pruned(ip), r.ok, Len(r.entries[ip].queries))
        q == Restarted(evAdm, evDen, evBase, ip, Pruned(ip), Len(r.entries[ip].events))
    IN  /\ h.den[ip] <= MaxDenied
        /\ entries' = r.entries
        /\ quAdm' = h.adm /\ quDen' = h.den /\ quBase' = h.base
        /\ evAdm' = q.adm /\ evDen' = q.den /\ evBase' = q.base
        /\ UNCHANGED <<relayVars, wsVars, connVars, timeVars, evSpaced, evLast, evLastOk, chanVars, cmVars, violations, subscription_count, ehVars, fnCall>>

RlCheckConnectionLimit(ip) ==
    /\ entries' = CheckConnectionLimit(entries, ip, clock).entries
    /\ entries' # entries
    /\ UNCHANGED <<relayVars, wsVars, connVars, timeVars, rateHist, chanVars, cmVars, violations, subscription_count, ehVars, fnCall>>

RlAddConnection(ip) ==
    /\ Held(entries, ip).connections < MaxConnections
    /\ entries' = AddConnection(entries, ip, clock)
    /\ UNCHANGED <<relayVars, wsVars, connVars, timeVars, rateHist, chanVars, cmVars, violations, subscription_count, ehVars, fnCall>>

Removed(ip, after) ==
    [ip |-> ip, tracked |-> ip \in DOMAIN entries,
     before |-> Held(entries, ip).connections, after |-> Held(after, ip).connections]

RlRemoveConnection(ip) ==
    /\ entries' = RemoveConnection(entries, ip)
    /\ lastRemove' = Removed(ip, entries')
    /\ UNCHANGED <<relayVars, wsVars, attPc, timeVars, rateHist, chanVars, cmVars, violations, subscription_count, ehVars, fnCall>>

\* RateLimiter::new, the spawned loop: interval.tick() then cleanup_task
RlCleanupTask ==
    LET swept == CleanupTaskResult(entries, clock)
        len(ip, events) == IF ip \in DOMAIN swept
                           THEN Len(IF events THEN swept[ip].events ELSE swept[ip].queries)
                           ELSE 0
        was(ip) == ip \in DOMAIN entries
    IN  /\ clock >= next_sweep
        /\ next_sweep' = next_sweep + CleanupIntervalSecs
        /\ entries' = swept
        /\ evAdm' = [ip \in Ips |-> IF was(ip) THEN 0 ELSE evAdm[ip]]
        /\ evDen' = [ip \in Ips |-> IF was(ip) THEN 0 ELSE evDen[ip]]
        /\ evBase' = [ip \in Ips |-> IF was(ip) THEN len(ip, TRUE) ELSE evBase[ip]]
        /\ quAdm' = [ip \in Ips |-> IF was(ip) THEN 0 ELSE quAdm[ip]]
        /\ quDen' = [ip \in Ips |-> IF was(ip) THEN 0 ELSE quDen[ip]]
        /\ quBase' = [ip \in Ips |-> IF was(ip) THEN len(ip, FALSE) ELSE quBase[ip]]
        /\ UNCHANGED <<relayVars, wsVars, connVars, clock, evSpaced, evLast, evLastOk, chanVars, cmVars, violations, subscription_count, ehVars, fnCall>>

\* time passes
Tick ==
    /\ clock + TimeStep <= MaxTime
    /\ clock' = clock + TimeStep
    /\ UNCHANGED <<relayVars, wsVars, connVars, entries, next_sweep, rateHist, chanVars, cmVars, violations, subscription_count, ehVars, fnCall>>

\* --- connection attempts of handle_websocket from one address (SpecConn)

\* handle_websocket: check_connection_limit; a refused attempt returns
AttCheck(a) ==
    /\ attPc[a] = "new"
    /\ LET r == CheckConnectionLimit(entries, AttemptIp[a], clock)
       IN  /\ entries' = r.entries
           /\ attPc' = [attPc EXCEPT ![a] = IF r.ok THEN "admitted" ELSE "refused"]
    /\ UNCHANGED <<relayVars, wsVars, lastRemove, timeVars, rateHist, chanVars, cmVars, violations, subscription_count, ehVars, fnCall>>

\* handle_websocket: add_connection, then the inbound loop
AttAdd(a) ==
    /\ attPc[a] = "admitted"
    /\ entries' = AddConnection(entries, AttemptIp[a], clock)
    /\ attPc' = [attPc EXCEPT ![a] = "live"]
    /\ UNCHANGED <<relayVars, wsVars, lastRemove, timeVars, rateHist, chanVars, cmVars, violations, subscription_count, ehVars, fnCall>>

\* handle_websocket: the loop ends; remove_connection
AttRelease(a) ==
    /\ attPc[a] = "live"
    /\ entries' = RemoveConnection(entries, AttemptIp[a])
    /\ attPc' = [attPc EXCEPT ![a] = "ended"]
    /\ lastRemove' = Removed(AttemptIp[a], entries')
    /\ UNCHANGED <<relayVars, wsVars, timeVars, rateHist, chanVars, cmVars, violations, subscription_count, ehVars, fnCall>>

\* ------------------------------------------------------------ event table

\* JSON text is modelled by the value it denotes: a text is [json |-> value],
\* a value is an object (here always an event) or a string (of some text).
AsJson(e) == [json |-> [t |-> "object", v |-> e]]            \* event.as_json(): String
ToStringOfString(s) == [json |-> [t |-> "string", v |-> s]]  \* serde_json::to_string(&String)
FromStr(text) == text.json                                   \* serde_json::from_str::<Value>
\* a decoder that also reads the event out of a string holding its JSON text
EventFromValueOrText(v) == IF v.t = "object" THEN Some(v.v) ELSE Some(v.v.json.v)

\* serde_json::from_value::<Event>: Some(event) for an object, None (Err) otherwise
EventFromValue(v) == IF v.t = "object" THEN Some(v.v) ELSE None

\* the row save_event binds
RowOf(e) == [id |-> e.id, pubkey |-> e.pubkey, created_at |-> e.created_at,
             kind |-> e.kind, raw_event |-> ToStringOfString(AsJson(e))]

\* event_exists: SELECT COUNT(*) ... WHERE id = $1; count > 0
EventExists(tbl, id) == Cardinality({i \in 1..Len(tbl) : tbl[i].id = id}) > 0

\* save_event: INSERT ... ON CONFLICT (id) DO NOTHING
SaveEvent(tbl, e) ==
    IF \E i \in 1..Len(tbl) : tbl[i].id = e.id THEN tbl ELSE Append(tbl, RowOf(e))

\* the events that were inserted (history: what the rows were made from)
InsertedEvents(tbl) == {tbl[i].raw_event.json.v.json.v : i \in 1..Len(tbl)}

\* The orders ORDER BY created_at DESC allows: rows of equal created_at come in
\* any order.
RowPerms(n) ==
    {p \in [1..n -> 1..n] : \A i, j \in 1..n : i # j => p[i] # p[j]}
RowOrders(tbl) ==
    {p \in RowPerms(Len(tbl)) :
        \A i, j \in 1..Len(tbl) : i < j => tbl[p[i]].created_at >= tbl[p[j]].created_at}
Min(a, b) == IF a < b THEN a ELSE b

RECURSIVE DecodeRows(_)
\* the loop of get_events over the fetched rows: a row that fails to decode is
\* logged and skipped
DecodeRows(rows) ==
    IF rows = <<>> THEN <<>>
    ELSE LET ev == EventFromValue(FromStr(rows[1].raw_event))
         IN  (IF ev = None THEN <<>> ELSE <<CHOOSE e \in ev : TRUE>>) \o DecodeRows(Tail(rows))

\* get_events / query_events: the possible results (the filter is not used)
GetEvents(tbl, filter) ==
    {DecodeRows([i \in 1..Min(Len(tbl), QueryLimit) |-> tbl[p[i]]]) : p \in RowOrders(tbl)}

\* ------------------------------------------------------------ main.rs sessions

NoFrame == [t |-> "NONE"]

\* send_message: frame after frame until one fails; n of the frames fs are
\* written, and the handler goes on at `next` only when all were (an Err ends
\* the inbound loop: handle_websocket breaks and cleans up).
SendAll(c, old, fs, n, next) ==
    /\ sent' = [sent EXCEPT ![c] = old \o SubSeq(fs, 1, n)]
    /\ pc' = [pc EXCEPT ![c] = IF n = Len(fs) THEN next ELSE "cleanup"]
SendCount(fs, sendok) == IF sendok THEN Len(fs) ELSE Len(fs) - 1

\* an inbound frame ends the wait of the deliveries owed to this session
Forget(c) == {p \in pending : p.to # c}

\* the subscriptions that are live when an event is accepted: registered, and
\* their session waits for its next frame (its EOSE has been sent)
LiveKeys(e) ==
    UNION {{<<b, k>> : k \in {k \in DOMAIN subscriptions[b] : Matches(subscriptions[b][k], e)}} :
             b \in {b \in DOMAIN subscriptions : pc[b] = "open"}}
Owed(from, e) ==
    {[from |-> from, to |-> x[1], sub |-> SubOfKey(x[2]), ev |-> e] : x \in LiveKeys(e)}

\* handle_websocket: check_connection_limit
WsCheckLimit(c) ==
    /\ pc[c] = "new"
    /\ LET r == CheckConnectionLimit(entries, ClientIp[c], clock)
       IN  /\ entries' = r.entries
           /\ pc' = [pc EXCEPT ![c] = IF r.ok THEN "admitted" ELSE "refused"]
    /\ UNCHANGED <<frame, sent, subscriptions, events_tbl, pending, timeVars, rateHist, wsVars, connVars, chanVars, cmVars, violations, subscription_count, ehVars, fnCall>>

\* handle_websocket: add_connection, then the inbound loop
WsAddConnection(c) ==
    /\ pc[c] = "admitted"
    /\ entries' = AddConnection(entries, ClientIp[c], clock)
    /\ pc' = [pc EXCEPT ![c] = "open"]
    /\ UNCHANGED <<frame, sent, subscriptions, events_tbl, pending, timeVars, rateHist, wsVars, connVars, chanVars, cmVars, violations, subscription_count, ehVars, fnCall>>

\* an undecodable frame that ends the session after its NOTICE
RecvInvalidCloses(c, sendok) ==
    /\ pc[c] = "open"
    /\ frame' = [frame EXCEPT ![c] = [t |-> "INVALID"]]
    /\ LET fs == <<NoticeMsg("Invalid message format")>>
       IN  SendAll(c, <<>>, fs, SendCount(fs, sendok), "cleanup")
    /\ pending' = Forget(c)
    /\ UNCHANGED <<subscriptions, events_tbl, limiterVars, rateHist, wsVars, connVars, chanVars, cmVars, violations, subscription_count, ehVars, fnCall>>

\* handle_client_message: a text frame that is no client message
RecvInvalid(c, sendok) ==
    /\ pc[c] = "open"
    /\ frame' = [frame EXCEPT ![c] = [t |-> "INVALID"]]
    /\ LET fs == <<NoticeMsg("Invalid message format")>>
       IN  SendAll(c, <<>>, fs, SendCount(fs, sendok), "done")
    /\ pending' = Forget(c)
    /\ UNCHANGED <<subscriptions, events_tbl, limiterVars, rateHist, wsVars, connVars, chanVars, cmVars, violations, subscription_count, ehVars, fnCall>>

\* handle_websocket and handle_client_message: a text frame of any size (big:
\* above 64 KiB) that is no client message; the code keeps no count of them
RecvProtocolError(c, big, sendok) ==
    /\ pc[c] = "open"
    /\ violations[c].count < MaxViolations
    /\ violations' = [violations EXCEPT ![c] = [count |-> @.count + 1, big |-> @.big \/ big]]
    /\ frame' = [frame EXCEPT ![c] = [t |-> "INVALID"]]
    /\ LET fs == <<NoticeMsg("Invalid message format")>>
       IN  SendAll(c, <<>>, fs, SendCount(fs, sendok), "done")
    /\ pending' = Forget(c)
    /\ UNCHANGED <<subscriptions, events_tbl, limiterVars, rateHist, wsVars, connVars, chanVars, cmVars, subscription_count, ehVars, fnCall>>

\* handle_client_message, EVENT: check_event_rate, then handle_event_message
\* up to its first store call (event.verify())
RecvEvent(c, e, sendok) ==
    /\ pc[c] = "open"
    /\ frame' = [frame EXCEPT ![c] = [t |-> "EVENT", ev |-> e]]
    /\ pending' = Forget(c)
    /\ LET r == CheckEventRate(entries, ClientIp[c], clock)
       IN  /\ entries' = r.entries
           /\ IF ~r.ok
              THEN LET fs == <<NoticeMsg("Event rate limit exceeded")>>
                   IN  SendAll(c, <<>>, fs, SendCount(fs, sendok), "done")
              ELSE IF ~Verify(e)
              THEN LET fs == <<OkMsg(e.id, FALSE, "Invalid event signature")>>
                   IN  SendAll(c, <<>>, fs, SendCount(fs, sendok), "done")
              ELSE /\ sendok
                   /\ SendAll(c, <<>>, <<>>, 0, "ev_exists")
    /\ UNCHANGED <<subscriptions, events_tbl, timeVars, rateHist, wsVars, connVars, chanVars, cmVars, violations, subscription_count, ehVars, fnCall>>

\* ------------------------------------------------------------ sessions (main.rs)

\* a duplicate answered as a rejection
DuplicateReplyRejected(e) == OkMsg(e.id, FALSE, "duplicate: event already exists")

\* handle_event_message: the answer to an event that already exists
DuplicateReply(e) == OkMsg(e.id, TRUE, "duplicate: event already exists")

\* handle_event_message: event_exists
HandleEventExists(c, dbok, sendok) ==
    /\ pc[c] = "ev_exists"
    /\ LET e == frame[c].ev
       IN  IF ~dbok
           THEN sendok /\ SendAll(c, sent[c], <<>>, 0, "cleanup")
           ELSE IF EventExists(events_tbl, e.id)
           THEN LET fs == <<DuplicateReply(e)>>
                IN  SendAll(c, sent[c], fs, SendCount(fs, sendok), "done")
           ELSE sendok /\ SendAll(c, sent[c], <<>>, 0, "ev_save")
    /\ UNCHANGED <<frame, subscriptions, events_tbl, pending, limiterVars, rateHist, wsVars, connVars, chanVars, cmVars, violations, subscription_count, ehVars, fnCall>>

\* handle_event_message: save_event and the OK
HandleEventSave(c, dbok, sendok) ==
    /\ pc[c] = "ev_save"
    /\ LET e == frame[c].ev
       IN  IF dbok
           THEN /\ events_tbl' = SaveEvent(events_tbl, e)
                /\ pending' = pending \cup Owed(c, e)
                /\ LET fs == <<OkMsg(e.id, TRUE, "")>>
                   IN  SendAll(c, sent[c], fs, SendCount(fs, sendok), "done")
           ELSE /\ UNCHANGED <<events_tbl, pending>>
                /\ LET fs == <<OkMsg(e.id, FALSE, "Failed to store event")>>
                   IN  SendAll(c, sent[c], fs, SendCount(fs, sendok), "done")
    /\ UNCHANGED <<frame, subscriptions, limiterVars, rateHist, wsVars, connVars, chanVars, cmVars, violations, subscription_count, ehVars, fnCall>>

\* handle_client_message, REQ: check_query_rate
RecvReq(c, sub, filters, sendok) ==
    /\ pc[c] = "open"
    /\ frame' = [frame EXCEPT ![c] = [t |-> "REQ", sub |-> sub, filters |-> filters, qi |-> 1,
                                       stored |-> InsertedEvents(events_tbl)]]
    /\ pending' = Forget(c)
    /\ LET r == CheckQueryRate(entries, ClientIp[c], clock)
       IN  /\ entries' = r.entries
           /\ IF ~r.ok
              THEN LET fs == <<NoticeMsg("Query rate limit exceeded")>>
                   IN  SendAll(c, <<>>, fs, SendCount(fs, sendok), "done")
              ELSE sendok /\ SendAll(c, <<>>, <<>>, 0, "req_register")
    /\ UNCHANGED <<subscriptions, events_tbl, timeVars, rateHist, wsVars, connVars, chanVars, cmVars, violations, subscription_count, ehVars, fnCall>>

\* handle_req_message: "Store subscription", one insert per filter under the
\* key format!("{}:{}", subscription_id, i)
StoreSubscription(subs, client, sub, filters) ==
    LET old == IF client \in DOMAIN subs THEN subs[client] ELSE EmptyMap
        keys == {FilterKey(sub, i - 1) : i \in 1..Len(filters)}
        new == [k \in DOMAIN old \cup keys |->
                   IF k \in keys
                   THEN filters[CHOOSE i \in 1..Len(filters) : FilterKey(sub, i - 1) = k]
                   ELSE old[k]]
    IN  Put(subs, client, new)

HandleReqRegister(c) ==
    /\ pc[c] = "req_register"
    /\ subscriptions' = StoreSubscription(subscriptions, c, frame[c].sub, frame[c].filters)
    /\ pc' = [pc EXCEPT ![c] = IF frame[c].filters = <<>> THEN "req_eose" ELSE "req_query"]
    /\ UNCHANGED <<frame, sent, events_tbl, pending, limiterVars, rateHist, wsVars, connVars, chanVars, cmVars, violations, subscription_count, ehVars, fnCall>>

\* handle_req_message: the query of one filter and the EVENT frames of its result
HandleReqQuery(c, dbok, n) ==
    /\ pc[c] = "req_query"
    /\ LET f == frame[c]
       IN  IF ~dbok
           THEN /\ n = 0
                /\ SendAll(c, sent[c], <<>>, 0, "cleanup")
                /\ UNCHANGED frame
           ELSE \E events \in GetEvents(events_tbl, f.filters[f.qi]) :
                  LET fs == [i \in 1..Len(events) |-> EventMsg(f.sub, events[i])]
                  IN  /\ n <= Len(fs)
                      /\ SendAll(c, sent[c], fs, n,
                                 IF f.qi = Len(f.filters) THEN "req_eose" ELSE "req_query")
                      /\ frame' = [frame EXCEPT ![c].qi = IF n = Len(fs) THEN @ + 1 ELSE @]
    /\ UNCHANGED <<subscriptions, events_tbl, pending, limiterVars, rateHist, wsVars, connVars, chanVars, cmVars, violations, subscription_count, ehVars, fnCall>>

\* handle_req_message: EOSE
HandleReqEose(c, sendok) ==
    /\ pc[c] = "req_eose"
    /\ LET fs == <<EoseMsg(frame[c].sub)>>
       IN  SendAll(c, sent[c], fs, SendCount(fs, sendok), "done")
    /\ UNCHANGED <<frame, subscriptions, events_tbl, pending, limiterVars, rateHist, wsVars, connVars, chanVars, cmVars, violations, subscription_count, ehVars, fnCall>>

\* handle_close_message: retain(|key, _| !key.starts_with("<sub>:"))
CloseSubscription(subs, client, sub) ==
    IF client \in DOMAIN subs
    THEN [subs EXCEPT ![client] =
             RemoveKeys(@, {k \in DOMAIN @ : StartsWith(k, sub \o <<":">>)})]
    ELSE subs

\* handle_client_message, CLOSE
RecvClose(c, sub) ==
    /\ pc[c] = "open"
    /\ frame' = [frame EXCEPT ![c] = [t |-> "CLOSE", sub |-> sub]]
    /\ sent' = [sent EXCEPT ![c] = <<>>]
    /\ pending' = Forget(c)
    /\ subscriptions' = CloseSubscription(subscriptions, c, sub)
    /\ pc' = [pc EXCEPT ![c] = "done"]
    /\ UNCHANGED <<events_tbl, limiterVars, rateHist, wsVars, connVars, chanVars, cmVars, violations, subscription_count, ehVars, fnCall>>

\* handle_client_message: any other client message, and handle_websocket: any
\* frame that is neither text nor close
RecvOther(c) ==
    /\ pc[c] = "open"
    /\ frame' = [frame EXCEPT ![c] = [t |-> "OTHER"]]
    /\ sent' = [sent EXCEPT ![c] = <<>>]
    /\ pending' = Forget(c)
    /\ pc' = [pc EXCEPT ![c] = "done"]
    /\ UNCHANGED <<subscriptions, events_tbl, limiterVars, rateHist, wsVars, connVars, chanVars, cmVars, violations, subscription_count, ehVars, fnCall>>

\* handle_websocket: the handler returned Ok and the loop waits for the next
\* frame; the deliveries this session's event owed were due by now
NextFrame(c) ==
    /\ pc[c] = "done"
    /\ pc' = [pc EXCEPT ![c] = "open"]
    /\ frame' = [frame EXCEPT ![c] = NoFrame]
    /\ sent' = [sent EXCEPT ![c] = <<>>]
    /\ pending' = {p \in pending : p.from # c}
    /\ UNCHANGED <<subscriptions, events_tbl, limiterVars, rateHist, wsVars, connVars, chanVars, cmVars, violations, subscription_count, ehVars, fnCall>>

\* handle_websocket: a close frame, a transport error or the end of the stream
Disconnect(c) ==
    /\ pc[c] = "open"
    /\ pc' = [pc EXCEPT ![c] = "cleanup"]
    /\ pending' = Forget(c)
    /\ UNCHANGED <<frame, sent, subscriptions, events_tbl, limiterVars, rateHist, wsVars, connVars, chanVars, cmVars, violations, subscription_count, ehVars, fnCall>>

\* a cleanup that leaves the registry as it is
CleanupKeepsSubscriptions(subs, client) == subs

\* cleanup_client_subscriptions
CleanupClientSubscriptions(subs, client) == RemoveKeys(subs, {client})

Cleanup(c) ==
    /\ pc[c] = "cleanup"
    /\ subscriptions' = CleanupClientSubscriptions(subscriptions, c)
    /\ pc' = [pc EXCEPT ![c] = "release"]
    /\ pending' = Forget(c)
    /\ UNCHANGED <<frame, sent, events_tbl, limiterVars, rateHist, wsVars, connVars, chanVars, cmVars, violations, subscription_count, ehVars, fnCall>>

\* handle_websocket: remove_connection, "session ended"
Release(c) ==
    /\ pc[c] = "release"
    /\ entries' = RemoveConnection(entries, ClientIp[c])
    /\ pc' = [pc EXCEPT ![c] = "ended"]
    /\ UNCHANGED <<frame, sent, subscriptions, events_tbl, pending, timeVars, rateHist, wsVars, connVars, chanVars, cmVars, violations, subscription_count, ehVars, fnCall>>

\* --- the registry and the gauge of active subscriptions (SpecGauge)

\* the keys of a session in the registry
ClientKeys(subs, client) == IF client \in DOMAIN subs THEN DOMAIN subs[client] ELSE {}

\* handle_req_message: the filters are stored and record_subscription_start
\* is called once; a failed query or send ends the session
MxReq(c, sub, filters, ok) ==
    /\ pc[c] = "open"
    /\ subscription_count < MaxGauge /\ subscription_count > -MaxGauge
    /\ subscriptions' = StoreSubscription(subscriptions, c, sub, filters)
    /\ subscription_count' = subscription_count + 1
    /\ pc' = [pc EXCEPT ![c] = IF ok THEN "open" ELSE "cleanup"]
    /\ UNCHANGED <<frame, sent, events_tbl, pending, limiterVars, rateHist, wsVars, connVars, chanVars, cmVars, violations, ehVars, fnCall>>

\* handle_close_message: record_subscription_end once per removed key
MxClose(c, sub) ==
    /\ pc[c] = "open"
    /\ subscriptions' = CloseSubscription(subscriptions, c, sub)
    /\ subscription_count' = subscription_count
           - Cardinality(ClientKeys(subscriptions, c) \ ClientKeys(subscriptions', c))
    /\ UNCHANGED <<pc, frame, sent, events_tbl, pending, limiterVars, rateHist, wsVars, connVars, chanVars, cmVars, violations, ehVars, fnCall>>

\* cleanup_client_subscriptions: record_subscription_end once per key of the session
MxCleanup(c) ==
    /\ pc[c] = "cleanup"
    /\ subscriptions' = CleanupClientSubscriptions(subscriptions, c)
    /\ subscription_count' = subscription_count - Cardinality(ClientKeys(subscriptions, c))
    /\ pc' = [pc EXCEPT ![c] = "release"]
    /\ UNCHANGED <<frame, sent, events_tbl, pending, limiterVars, rateHist, wsVars, connVars, chanVars, cmVars, violations, ehVars, fnCall>>

\* ------------------------------------------------------------ connections (websocket.rs)

\* Connection::remove_subscription that removes nothing
RemoveNothing(subs, sub) == subs

\* Connection::add_subscription
AddSubscription(subs, sub, filters) == Put(subs, sub, filters)

\* Connection::remove_subscription
RemoveSubscription(subs, sub) == RemoveKeys(subs, {sub})

\* Subscription::matches_event
MatchesEvent(filters, e) == \E i \in 1..Len(filters) : Matches(filters[i], e)

\* a lookup that returns every subscription of the connection
GetAllSubscriptions(subs, e) == DOMAIN subs

\* Connection::get_matching_subscriptions
GetMatchingSubscriptions(subs, e) == {sub \in DOMAIN subs : MatchesEvent(subs[sub], e)}

\* Connection::send_message; the outbound receiver sees what is sent after it subscribed
Enqueue(q, rx, c, fs) == IF rx[c] THEN [q EXCEPT ![c] = @ \o fs] ELSE q
WsRoom(c, k) == Len(wsQueue[c]) + k <= MaxQueue

\* a sequence of frames, one per element of a sequence of events
RECURSIVE EventFrames(_, _)
EventFrames(sub, es) ==
    IF es = <<>> THEN <<>> ELSE <<EventMsg(sub, Head(es))>> \o EventFrames(sub, Tail(es))

\* handle_socket: Connection::new, ConnectionManager::add_connection, spawn of the inbound task
WsConnect(c) ==
    /\ wsPc[c] = "new"
    /\ wsPc' = [wsPc EXCEPT ![c] = "open"]
    /\ wsConns' = wsConns \cup {c}
    /\ UNCHANGED <<relayVars, limiterVars, rateHist, connVars, wsEcho, wsFrame, wsSubs, wsRx, wsQueue, wsClosed, chanVars, cmVars, violations, subscription_count, ehVars, fnCall>>

\* handle_socket: connection.subscribe_to_messages, spawn of the outbound task
WsSubscribe(c) ==
    /\ wsPc[c] # "new"
    /\ ~wsRx[c]
    /\ wsRx' = [wsRx EXCEPT ![c] = TRUE]
    /\ UNCHANGED <<relayVars, limiterVars, rateHist, connVars, wsEcho, wsPc, wsFrame, wsConns, wsSubs, wsQueue, wsClosed, chanVars, cmVars, violations, subscription_count, ehVars, fnCall>>

\* the outbound task: rx.recv and sender.send
WsOutgoing(c) ==
    /\ wsRx[c]
    /\ wsQueue[c] # <<>>
    /\ wsQueue' = [wsQueue EXCEPT ![c] = Tail(@)]
    /\ UNCHANGED <<relayVars, limiterVars, rateHist, connVars, wsEcho, wsPc, wsFrame, wsConns, wsSubs, wsRx, wsClosed, chanVars, cmVars, violations, subscription_count, ehVars, fnCall>>

\* a call of send_message recorded in wsEcho: the message, the connection it
\* was sent to and whether that connection's outbound task held a receiver
Sent(m, d, rx) == [msg |-> m, to |-> d, seen |-> rx]

\* handle_client_message, EVENT: process_event and the OK reply.  The storage
\* and the limiter process_event calls decide `out` once the event is valid.
WsRecvEvent(c, e, out) ==
    /\ wsPc[c] = "open"
    /\ WsRoom(c, 1)
    /\ out = "accepted" => Verify(e)
    /\ wsQueue' = Enqueue(wsQueue, wsRx, c,
                     <<CASE out = "accepted" -> OkMsg(e.id, TRUE, "")
                         [] out = "rejected" -> OkMsg(e.id, FALSE, "Event rejected")
                         [] OTHER -> OkMsg(e.id, FALSE, "Error")>>)
    /\ IF out = "accepted"
       THEN /\ wsPc' = [wsPc EXCEPT ![c] = "broadcast"]
            /\ wsFrame' = [wsFrame EXCEPT ![c] =
                   [t |-> "EVENT", ev |-> e, conns |-> {}, cur |-> c, subs |-> {},
                    closed |-> {<<d, sub>> : d \in Clients, sub \in SubIds} \cap
                               {x \in Clients \X SubIds : x[2] \in wsClosed[x[1]]},
                    inreq |-> {d \in Clients : wsPc[d] = "req_add"},
                    live |-> EmptyMap]]
       ELSE UNCHANGED <<wsPc, wsFrame>>
    /\ wsEcho' = IF out = "accepted"
                 THEN [wsEcho EXCEPT ![c] = <<Sent(OkMsg(e.id, TRUE, ""), c, wsRx[c])>>]
                 ELSE wsEcho
    /\ UNCHANGED <<relayVars, limiterVars, rateHist, connVars, wsConns, wsSubs, wsRx, wsClosed, chanVars, cmVars, violations, subscription_count, ehVars, fnCall>>

\* ConnectionManager::broadcast_event: get_all_connections
WsBroadcast(c) ==
    /\ wsPc[c] = "broadcast"
    /\ wsPc' = [wsPc EXCEPT ![c] = "fan_match"]
    /\ wsFrame' = [wsFrame EXCEPT ![c].conns = wsConns]
    /\ UNCHANGED <<relayVars, limiterVars, rateHist, connVars, wsEcho, wsConns, wsSubs, wsRx, wsQueue, wsClosed, chanVars, cmVars, violations, subscription_count, ehVars, fnCall>>

\* send_event_to_subscriptions: get_matching_subscriptions of the next connection
WsFanMatch(c, d) ==
    /\ wsPc[c] = "fan_match"
    /\ d \in wsFrame[c].conns
    /\ LET m == GetMatchingSubscriptions(wsSubs[d], wsFrame[c].ev)
       IN  /\ wsFrame' = [wsFrame EXCEPT ![c].conns = @ \ {d}, ![c].cur = d, ![c].subs = m,
                                         ![c].live = wsSubs[d]]
           /\ wsPc' = [wsPc EXCEPT ![c] = IF m = {} THEN "fan_match" ELSE "fan_send"]
    /\ UNCHANGED <<relayVars, limiterVars, rateHist, connVars, wsEcho, wsConns, wsSubs, wsRx, wsQueue, wsClosed, chanVars, cmVars, violations, subscription_count, ehVars, fnCall>>

\* send_event_to_subscriptions: one send_message of the loop
WsFanSend(c, sub) ==
    /\ wsPc[c] = "fan_send"
    /\ sub \in wsFrame[c].subs
    /\ WsRoom(wsFrame[c].cur, 1)
    /\ wsQueue' = Enqueue(wsQueue, wsRx, wsFrame[c].cur, <<EventMsg(sub, wsFrame[c].ev)>>)
    /\ wsFrame' = [wsFrame EXCEPT ![c].subs = @ \ {sub}]
    /\ wsPc' = [wsPc EXCEPT ![c] = IF wsFrame[c].subs = {sub} THEN "fan_match" ELSE "fan_send"]
    /\ wsEcho' = [wsEcho EXCEPT ![c] =
                    Append(@, Sent(EventMsg(sub, wsFrame[c].ev), wsFrame[c].cur, wsRx[wsFrame[c].cur]))]
    /\ UNCHANGED <<relayVars, limiterVars, rateHist, connVars, wsConns, wsSubs, wsRx, wsClosed, chanVars, cmVars, violations, subscription_count, ehVars, fnCall>>

\* broadcast_event: the loop over the connections is over
WsFanDone(c) ==
    /\ wsPc[c] = "fan_match"
    /\ wsFrame[c].conns = {}
    /\ wsPc' = [wsPc EXCEPT ![c] = "open"]
    /\ wsFrame' = [wsFrame EXCEPT ![c] = NoFrame]
    /\ UNCHANGED <<relayVars, limiterVars, rateHist, connVars, wsEcho, wsConns, wsSubs, wsRx, wsQueue, wsClosed, chanVars, cmVars, violations, subscription_count, ehVars, fnCall>>

\* handle_client_message, REQ: query_events, the stored events, EOSE
WsRecvReq(c, sub, filters, res) ==
    /\ wsPc[c] = "open"
    /\ IF ~res.ok
       THEN /\ WsRoom(c, 1)
            /\ wsQueue' = Enqueue(wsQueue, wsRx, c, <<NoticeMsg("Query failed")>>)
            /\ UNCHANGED <<wsPc, wsFrame>>
       ELSE /\ WsRoom(c, Len(res.events) + 1)
            /\ wsQueue' = Enqueue(wsQueue, wsRx, c, EventFrames(sub, res.events) \o <<EoseMsg(sub)>>)
            /\ wsPc' = [wsPc EXCEPT ![c] = "req_add"]
            /\ wsFrame' = [wsFrame EXCEPT ![c] =
                   [t |-> "REQ", sub |-> sub, filters |-> filters, backfill |-> res.events]]
    /\ UNCHANGED <<relayVars, limiterVars, rateHist, connVars, wsEcho, wsConns, wsSubs, wsRx, wsClosed, chanVars, cmVars, violations, subscription_count, ehVars, fnCall>>

\* handle_client_message, REQ: connection.add_subscription
WsReqAdd(c) ==
    /\ wsPc[c] = "req_add"
    /\ wsSubs' = [wsSubs EXCEPT ![c] = AddSubscription(@, wsFrame[c].sub, wsFrame[c].filters)]
    /\ wsClosed' = [wsClosed EXCEPT ![c] = @ \ {wsFrame[c].sub}]
    /\ wsFrame' = [d \in Clients |->
                     IF d = c THEN NoFrame
                     ELSE IF wsFrame[d].t = "EVENT"
                          THEN [wsFrame[d] EXCEPT !.closed = @ \ {<<c, wsFrame[c].sub>>},
                                                  !.inreq = @ \ {c}]
                          ELSE wsFrame[d]]
    /\ wsPc' = [wsPc EXCEPT ![c] = "open"]
    /\ UNCHANGED <<relayVars, limiterVars, rateHist, connVars, wsEcho, wsConns, wsRx, wsQueue, chanVars, cmVars, violations, subscription_count, ehVars, fnCall>>

\* handle_client_message, CLOSE
WsRecvClose(c, sub) ==
    /\ wsPc[c] = "open"
    /\ wsSubs' = [wsSubs EXCEPT ![c] = RemoveSubscription(@, sub)]
    /\ wsClosed' = [wsClosed EXCEPT ![c] = @ \cup {sub}]
    /\ UNCHANGED <<relayVars, limiterVars, rateHist, connVars, wsEcho, wsPc, wsFrame, wsConns, wsRx, wsQueue, chanVars, cmVars, violations, subscription_count, ehVars, fnCall>>

\* handle_socket: the inbound loop ends; ConnectionManager::remove_connection
WsDisconnect(c) ==
    /\ wsPc[c] = "open"
    /\ wsPc' = [wsPc EXCEPT ![c] = "closed"]
    /\ wsConns' = wsConns \ {c}
    /\ UNCHANGED <<relayVars, limiterVars, rateHist, connVars, wsEcho, wsFrame, wsSubs, wsRx, wsQueue, wsClosed, chanVars, cmVars, violations, subscription_count, ehVars, fnCall>>

\* ------------------------------------------------------------ one connection's outbound channel

\* an outbound receiver that takes the newest message first
ChTakeNewest(q) == [msg |-> q[Len(q)], rest |-> SubSeq(q, 1, Len(q) - 1)]

\* broadcast::Receiver::recv: the oldest message retained
ChTake(q) == [msg |-> Head(q), rest |-> Tail(q)]

\* a relay message, with the number of the inbound frame it replies to (0: an
\* event dispatched for a subscription)
ChMsg(t, no) == [t |-> t, no |-> no]
ChLoss(m, why) == [msg |-> m, why |-> why, at |-> Len(chFrames)]

\* Connection::send_message, i.e. broadcast::Sender::send: the receiver kept in
\* the Connection makes every send succeed; a message sent while the outbound
\* task holds no receiver is seen by nobody; a message sent to a full channel
\* overwrites the oldest one and the outbound receiver lags.
ChSend(m) ==
    IF chOut # "running"
    THEN /\ chLost' = chLost \cup {ChLoss(m, "no receiver")}
         /\ UNCHANGED <<chQueue, chLagged>>
    ELSE IF Len(chQueue) < ChannelCapacity
    THEN /\ chQueue' = Append(chQueue, m)
         /\ UNCHANGED <<chLagged, chLost>>
    ELSE /\ chQueue' = Append(Tail(chQueue), m)
         /\ chLagged' = TRUE
         /\ chLost' = chLost \cup {ChLoss(Head(chQueue), "overwritten")}

\* the replies handle_client_message sends for a frame
ChReplies(kind, k, dbok, no) ==
    CASE kind = "EVENT" -> <<ChMsg("OK", no)>>
      [] kind = "REQ" /\ dbok -> [i \in 1..k |-> ChMsg("EVENT", no)] \o <<ChMsg("EOSE", no)>>
      [] kind = "REQ" /\ ~dbok -> <<ChMsg("NOTICE", no)>>
      [] OTHER -> <<>>

\* handle_socket: connection.subscribe_to_messages, spawn of the outbound task
ChSubscribe ==
    /\ chOut = "unsubscribed"
    /\ chOut' = "running"
    /\ UNCHANGED <<relayVars, limiterVars, rateHist, wsVars, connVars, cmVars, violations, subscription_count, ehVars, fnCall,
                   chIn, chTodo, chJoined, chQueue, chLagged, chFrames, chLive, chWire, chLost>>

\* the inbound task: a text frame and handle_client_message up to its first
\* send_message; a frame that is no client message ends the task
ChFrame(kind, k, dbok) ==
    /\ chIn = "running"
    /\ chTodo = <<>>
    /\ Len(chFrames) < MaxFrames
    /\ chFrames' = Append(chFrames, kind)
    /\ chTodo' = ChReplies(kind, k, dbok, Len(chFrames) + 1)
    /\ chIn' = IF kind = "INVALID" THEN "ended" ELSE "running"
    /\ UNCHANGED <<relayVars, limiterVars, rateHist, wsVars, connVars, cmVars, violations, subscription_count, ehVars, fnCall,
                   chOut, chJoined, chQueue, chLagged, chLive, chWire, chLost>>

\* handle_client_message: the next connection.send_message of the frame
ChReply ==
    /\ chIn = "running"
    /\ chTodo # <<>>
    /\ ChSend(Head(chTodo))
    /\ chTodo' = Tail(chTodo)
    /\ UNCHANGED <<relayVars, limiterVars, rateHist, wsVars, connVars, cmVars, violations, subscription_count, ehVars, fnCall,
                   chIn, chOut, chJoined, chFrames, chLive, chWire>>

\* the connection holds a subscription: a REQ was answered up to its EOSE
\* (add_subscription follows it) and no CLOSE came after it
ChSentMsgs ==
    {chQueue[i] : i \in 1..Len(chQueue)} \cup {chWire[i] : i \in 1..Len(chWire)}
        \cup {l.msg : l \in chLost}
ChSubscribed ==
    \E i \in 1..Len(chFrames) :
        /\ ChMsg("EOSE", i) \in ChSentMsgs
        /\ \A j \in (i + 1)..Len(chFrames) : chFrames[j] # "CLOSE"

\* send_event_to_subscriptions, called by the broadcast_event of any session
\* while the connection is registered and holds a subscription
ChDispatch ==
    /\ ~chJoined
    /\ ChSubscribed
    /\ chLive < MaxLive
    /\ chLive' = chLive + 1
    /\ ChSend(ChMsg("EVENT", 0))
    /\ UNCHANGED <<relayVars, limiterVars, rateHist, wsVars, connVars, cmVars, violations, subscription_count, ehVars, fnCall,
                   chIn, chTodo, chOut, chJoined, chFrames, chWire>>

\* the outbound task: while let Ok(msg) = rx.recv() { sender.send(..) }; a
\* Lagged error, or a failed write, ends the loop with what the channel holds
ChRecv(sendok) ==
    /\ chOut = "running"
    /\ chLagged \/ chQueue # <<>>
    /\ IF chLagged \/ ~sendok
       THEN /\ chOut' = "ended"
            /\ chQueue' = <<>>
            /\ chLost' = chLost \cup {ChLoss(chQueue[i], "receiver ended") : i \in 1..Len(chQueue)}
            /\ UNCHANGED chWire
       ELSE /\ chWire' = Append(chWire, ChTake(chQueue).msg)
            /\ chQueue' = ChTake(chQueue).rest
            /\ UNCHANGED <<chOut, chLost>>
    /\ UNCHANGED <<relayVars, limiterVars, rateHist, wsVars, connVars, cmVars, violations, subscription_count, ehVars, fnCall,
                   chIn, chTodo, chJoined, chLagged, chFrames, chLive>>

\* the inbound task: a close frame, a transport error or the end of the stream
ChClose ==
    /\ chIn = "running"
    /\ chTodo = <<>>
    /\ chIn' = "ended"
    /\ UNCHANGED <<relayVars, limiterVars, rateHist, wsVars, connVars, cmVars, violations, subscription_count, ehVars, fnCall,
                   chTodo, chOut, chJoined, chQueue, chLagged, chFrames, chLive, chWire, chLost>>

\* handle_socket: select! on the two tasks, then remove_connection; the task
\* that has not ended is detached and runs on
ChJoin ==
    /\ ~chJoined
    /\ chIn = "ended" \/ chOut = "ended"
    /\ chJoined' = TRUE
    /\ UNCHANGED <<relayVars, limiterVars, rateHist, wsVars, connVars, cmVars, violations, subscription_count, ehVars, fnCall,
                   chIn, chTodo, chOut, chQueue, chLagged, chFrames, chLive, chWire, chLost>>

\* ------------------------------------------------------------ inactivity sweep (connection.rs)

NoSweep == [phase |-> "idle", now |-> 0, todo |-> {}, to_remove |-> {}]

\* Instant::duration_since: zero when the earlier instant is the later one
DurationSince(now, earlier) == IF now > earlier THEN now - earlier ELSE 0

\* cleanup_inactive_connections, the test of the scan
Inactive(now, last, timeout) == DurationSince(now, last) > timeout

\* the write lock of ConnectionManager.connections is free of the sweep
CmMapFree == cmSweep.phase \in {"idle", "wait"}

\* handle_socket: Connection::new (last_activity = Instant::now()) and
\* ConnectionManager::add_connection
CmAdd(c) ==
    /\ cmLast[c] = -1
    /\ CmMapFree
    /\ cmLast' = [cmLast EXCEPT ![c] = cmClock]
    /\ cmConns' = cmConns \cup {c}
    /\ UNCHANGED <<relayVars, limiterVars, rateHist, wsVars, connVars, chanVars, violations, subscription_count, ehVars, fnCall,
                   cmClock, cmSweep, cmRemoved>>

\* handle_client_message: connection.update_last_activity(), under the
\* connection's own lock; the task holds its Arc<Connection> whether or not
\* the manager still lists the connection
CmActivity(c) ==
    /\ cmLast[c] >= 0
    /\ cmLast[c] < cmClock
    /\ cmLast' = [cmLast EXCEPT ![c] = cmClock]
    /\ UNCHANGED <<relayVars, limiterVars, rateHist, wsVars, connVars, chanVars, violations, subscription_count, ehVars, fnCall,
                   cmConns, cmClock, cmSweep, cmRemoved>>

\* handle_socket: ConnectionManager::remove_connection at the end of a session
CmDisconnect(c) ==
    /\ c \in cmConns
    /\ CmMapFree
    /\ cmConns' = cmConns \ {c}
    /\ UNCHANGED <<relayVars, limiterVars, rateHist, wsVars, connVars, chanVars, violations, subscription_count, ehVars, fnCall,
                   cmLast, cmClock, cmSweep, cmRemoved>>

CmTick ==
    /\ cmClock + TimeStep <= MaxTime
    /\ cmClock' = cmClock + TimeStep
    /\ UNCHANGED <<relayVars, limiterVars, rateHist, wsVars, connVars, chanVars, violations, subscription_count, ehVars, fnCall,
                   cmConns, cmLast, cmSweep, cmRemoved>>

\* cleanup_inactive_connections: now = Instant::now(); read lock; start of the loop
CmSweepStart ==
    /\ cmSweep.phase = "idle"
    /\ cmConns # {}
    /\ cmSweep' = [phase |-> "scan", now |-> cmClock, todo |-> cmConns, to_remove |-> {}]
    /\ UNCHANGED <<relayVars, limiterVars, rateHist, wsVars, connVars, chanVars, violations, subscription_count, ehVars, fnCall,
                   cmConns, cmLast, cmClock, cmRemoved>>

\* the scan of one connection: connection.last_activity().await and the test
CmScan(c) ==
    /\ cmSweep.phase = "scan"
    /\ c \in cmSweep.todo
    /\ cmSweep' = [cmSweep EXCEPT
                      !.todo = @ \ {c},
                      !.to_remove = IF Inactive(cmSweep.now, cmLast[c], TimeoutSecs)
                                    THEN @ \cup {c} ELSE @]
    /\ UNCHANGED <<relayVars, limiterVars, rateHist, wsVars, connVars, chanVars, violations, subscription_count, ehVars, fnCall,
                   cmConns, cmLast, cmClock, cmRemoved>>

\* the end of the scan: the read lock is dropped; `if !to_remove.is_empty()`
CmScanEnd ==
    /\ cmSweep.phase = "scan"
    /\ cmSweep.todo = {}
    /\ cmSweep' = IF cmSweep.to_remove = {} THEN NoSweep ELSE [cmSweep EXCEPT !.phase = "wait"]
    /\ UNCHANGED <<relayVars, limiterVars, rateHist, wsVars, connVars, chanVars, violations, subscription_count, ehVars, fnCall,
                   cmConns, cmLast, cmClock, cmRemoved>>

\* the removal of one id of to_remove under the write lock: connections.remove(&id)
CmRemove(c) ==
    /\ cmSweep.phase \in {"wait", "remove"}
    /\ c \in cmSweep.to_remove
    /\ cmConns' = cmConns \ {c}
    /\ cmRemoved' = IF c \in cmConns
                    THEN cmRemoved \cup {[id |-> c, last |-> cmLast[c], at |-> cmClock]}
                    ELSE cmRemoved
    /\ cmSweep' = IF cmSweep.to_remove = {c} THEN NoSweep
                  ELSE [cmSweep EXCEPT !.phase = "remove", !.to_remove = @ \ {c}]
    /\ UNCHANGED <<relayVars, limiterVars, rateHist, wsVars, connVars, chanVars, violations, subscription_count, ehVars, fnCall,
                   cmLast, cmClock>>

\* ------------------------------------------------------------ EventHandler (event_handler.rs)

\* a kind validation that lets every event through
ValidateEventKindOpen(e, auth) == TRUE

\* EventKind::Auth
AuthKind == 22242

\* the events of SpecAuth; clen is content.len()
EhEvent(id, pubkey, kind, tags, clen, sig) ==
    [id |-> id, pubkey |-> pubkey, created_at |-> 100, kind |-> kind, tags |-> tags,
     content |-> "", clen |-> clen, sig |-> sig]
AuthEvents ==
    {EhEvent("a1", "pk1", AuthKind, <<<<"relay", "wss://relay">>, <<"challenge", "n1">>>>, 0, "good"),
     EhEvent("a2", "pk2", AuthKind, <<<<"challenge", "other">>>>, 0, "good"),
     EhEvent("a3", "pk1", AuthKind, <<<<"relay", "wss://relay">>, <<"challenge", "n1">>>>, 0, "bad"),
     EhEvent("a4", "pk1", AuthKind, <<<<"challenge", "">>>>, 0, "good"),
     EhEvent("a5", "pk1", AuthKind, <<<<"relay", "wss://relay">>>>, 0, "good"),
     EhEvent("a6", "pk1", 1, <<<<"challenge", "n1">>>>, 0, "good")}
GatedEvents ==
    {EhEvent("d1", "pk1", 4, <<>>, 5, "good"),
     EhEvent("x1", "pk1", 5, <<>>, 5, "good"),
     EhEvent("x2", "pk2", 5, <<>>, 5, "good"),
     EhEvent("t1", "pk2", 1, <<>>, 5, "good")}

\* Connection::set_authenticated
SetAuthenticated(pubkey) == [authenticated |-> pubkey # None, pubkey |-> pubkey]

\* EventHandler::extract_auth_challenge: the first tag ["challenge", value, ..]
ExtractAuthChallenge(e) ==
    LET found == {i \in 1..Len(e.tags) : Len(e.tags[i]) >= 2 /\ e.tags[i][1] = "challenge"}
    IN  IF found = {} THEN [ok |-> FALSE, challenge |-> ""]
        ELSE [ok |-> TRUE,
              challenge |-> e.tags[CHOOSE i \in found : \A j \in found : i <= j][2]]

\* EventHandler::validate_auth_challenge
ValidateAuthChallenge(challenge) == challenge # ""

\* Event::to_canonical_json: [0, pubkey, created_at, kind, tags, content]
ToCanonicalJson(e) == <<0, e.pubkey, e.created_at, e.kind, e.tags, e.content>>

\* EventId::from_event: the digest of the canonical form; two canonical forms
\* have the same digest only if they are equal
EventIdFromEvent(e) == <<"sha256", ToCanonicalJson(e)>>

\* Event::verify_id
VerifyId(e) == EventIdFromEvent(e) = e.id

\* Event::verify_signature: the signature is checked against the digest of
\* the canonical form and the pubkey; the id field is not read
VerifySignature(e) == e.sig = "good"

\* the events of SpecId: n1 and n5 carry their own digest as id, n2 and n3
\* carry the id of n1 over another content, n4 is not signed by its pubkey
IdEvent(pubkey, kind, content, sig) ==
    [id |-> "", pubkey |-> pubkey, created_at |-> 100, kind |-> kind, tags |-> <<>>,
     content |-> content, clen |-> 5, sig |-> sig]
WithId(e, of) == [e EXCEPT !.id = EventIdFromEvent(of)]
IdEvents ==
    {WithId(IdEvent("pk1", 1, "hello", "good"), IdEvent("pk1", 1, "hello", "good")),
     WithId(IdEvent("pk2", 1, "world", "good"), IdEvent("pk1", 1, "hello", "good")),
     WithId(IdEvent("pk1", 7, "+++++", "good"), IdEvent("pk1", 1, "hello", "good")),
     WithId(IdEvent("pk2", 1, "hello", "bad"), IdEvent("pk2", 1, "hello", "bad")),
     WithId(IdEvent("pk2", 7, "-----", "good"), IdEvent("pk2", 7, "-----", "good"))}

\* EventHandler::process_auth: the state of the connection after it
ProcessAuth(auth, e) ==
    IF e.kind # AuthKind THEN auth
    ELSE IF ~VerifySignature(e) THEN auth
    ELSE IF ~ExtractAuthChallenge(e).ok THEN auth
    ELSE IF ~ValidateAuthChallenge(ExtractAuthChallenge(e).challenge) THEN auth
    ELSE SetAuthenticated(Some(e.pubkey))

\* EventHandler::validate_event_kind
ValidateEventKind(e, auth) ==
    CASE e.kind = 0 -> ~(e.clen > 10000)
      [] e.kind = 1 -> ~(e.clen > 50000)
      [] e.kind = 3 -> ~(e.clen > 100000)
      [] e.kind = 4 -> auth.authenticated /\ ~(e.clen > 10000)
      [] e.kind = 5 -> /\ auth.authenticated
                       /\ \A user_pubkey \in auth.pubkey : e.pubkey = user_pubkey
      [] e.kind = 7 -> ~(e.clen > 100)
      [] e.kind \in 40..42 -> ~(e.clen > 50000)
      [] OTHER -> TRUE

\* EventHandler::validate_event: the fields, the timestamp window, the signature
ValidateEvent(e, timely) ==
    /\ e.id # "" /\ e.pubkey # "" /\ e.sig # ""
    /\ timely
    /\ VerifySignature(e)

\* Storage::event_exists, over the events store_event was given
EhExists(stored, id) == \E r \in stored : r.ev.id = id

\* EventHandler::process_event.  env: what the limiter, the clock and the
\* storage answer ("ok", "limited", "stale", "exists_err", "store_err")
ProcessEvent(stored, auth, e, env) ==
    IF env = "limited" THEN "false"
    ELSE IF ~ValidateEvent(e, env # "stale") THEN "false"
    ELSE IF env = "exists_err" THEN "err"
    ELSE IF EhExists(stored, e.id) THEN "false"
    ELSE IF ~ValidateEventKind(e, auth) THEN "false"
    ELSE IF env = "store_err" THEN "err"
    ELSE "true"

\* handle_client_message, EVENT: process_event and the OK
EhRecvEvent(c, e, env) ==
    LET r == ProcessEvent(ehStored, ehAuth[c], e, env)
    IN  /\ ehStored' = IF r = "true"
                       THEN ehStored \cup {[ev |-> e, auth |-> ehAuth[c]]}
                       ELSE ehStored
        /\ ehReply' = [ehReply EXCEPT ![c] =
               [ev |-> e, env |-> env, existed |-> EhExists(ehStored, e.id),
                ok |-> CASE r = "true" -> OkMsg(e.id, TRUE, "")
                         [] r = "false" -> OkMsg(e.id, FALSE, "Event rejected")
                         [] OTHER -> OkMsg(e.id, FALSE, "Error")]]
        /\ UNCHANGED <<relayVars, limiterVars, rateHist, wsVars, connVars, chanVars, cmVars, violations, subscription_count, fnCall,
                       ehAuth, ehAuthBy>>

\* handle_client_message, AUTH: process_auth; nothing is sent
EhRecvAuth(c, e) ==
    /\ ehAuth' = [ehAuth EXCEPT ![c] = ProcessAuth(@, e)]
    /\ ehAuthBy' = [ehAuthBy EXCEPT ![c] = IF ProcessAuth(ehAuth[c], e) # ehAuth[c] THEN Some(e) ELSE @]
    /\ UNCHANGED <<relayVars, limiterVars, rateHist, wsVars, connVars, chanVars, cmVars, violations, subscription_count, fnCall,
                   ehStored, ehReply>>

\* ------------------------------------------------------------ nostr-types functions

\* format!("#{}", tag_name) over the tag names used here
HashName(name) == CASE name = "e" -> "#e" [] name = "p" -> "#p" [] OTHER -> "#"

\* Filter::tag
FilterTag(f, name, value) ==
    [f EXCEPT !.tags = Put(@, HashName(name),
                           (IF HashName(name) \in DOMAIN @ THEN @[HashName(name)] ELSE {}) \cup {value})]

\* the events and the filters Filter::matches is called with
MatchEvent(id, pubkey, created_at, kind, tags) ==
    [id |-> id, pubkey |-> pubkey, created_at |-> created_at, kind |-> kind,
     tags |-> tags, content |-> "", sig |-> "good"]
MatchEvents ==
    {MatchEvent("e1", "pk1", 100, 1, <<<<"e", "v1">>>>),
     MatchEvent("e2", "pk2", 150, 7, <<<<"e", "x", "v1">>, <<"p", "v2">>>>),
     MatchEvent("e3", "pk1", 200, 1, <<<<"#e", "v1">>>>),
     MatchEvent("e4", "pk2", 99, 1, <<>>)}
PlainFilters ==
    {[ids |-> i, authors |-> a, kinds |-> k, since |-> s, until |-> u, limit |-> None,
      tags |-> EmptyMap] :
        i \in {None, Some({"e1"})}, a \in {None, Some({"pk1"})},
        k \in {None, Some({1}), Some({1, 7})},
        s \in {None, Some(100), Some(150)}, u \in {None, Some(100), Some(150)}}
TagFilters ==
    {FilterTag(f, name, "v1") : f \in {NoFilter, FKind1}, name \in {"e", "p"}}
        \cup {FilterTag(FilterTag(NoFilter, "e", "v1"), "p", "v2")}
SubscriptionFilters ==
    {<<f>> : f \in {NoFilter, FKind1, FAuthor2, FSince150}}
        \cup {<<f, g>> : f \in {FKind1, FAuthor2}, g \in {FSince150, FIdE1}}

\* serde_json::to_string(event).len(): the content and everything around it
\* (rest: the other fields, the quotes and the escapes, never empty)
JsonSize(e) == e.clen + e.rest

\* the events Event::validate is called with: kind 1, clen = content.len(),
\* ntags = tags.len(), maxtag = the longest tag value
ValidateEvents ==
    [clen : {10, MaxContentLength, MaxContentLength + 1}, rest : {300},
     ntags : {0, MaxTagsCount + 1}, maxtag : {10, MaxTagValueLength + 1},
     created_at : {Now, Now + 601, 100}, idok : BOOLEAN, sig : {"good", "bad"}]

\* Validate for Event::validate
Validate(e) ==
    IF JsonSize(e) > MaxEventSize THEN "EventTooLarge"
    ELSE IF e.ntags > MaxTagsCount THEN "TooManyTags"
    ELSE IF e.maxtag > MaxTagValueLength THEN "TagValueTooLong"
    ELSE IF e.clen > MaxContentLength THEN "ContentTooLong"
    ELSE IF e.created_at > Now + 600 THEN "InvalidFieldFormat"
    ELSE IF e.created_at < 946684800 THEN "InvalidFieldFormat"
    ELSE IF ~e.idok THEN "InvalidEvent"
    ELSE IF ~Verify(e) THEN "InvalidSignature"
    ELSE "Ok"

CallMatches(f, e) ==
    /\ fnCall' = [fn |-> "matches", f |-> f, e |-> e, res |-> Matches(f, e)]
    /\ UNCHANGED <<relayVars, limiterVars, rateHist, wsVars, connVars, chanVars, cmVars, violations, subscription_count, ehVars>>

CallMatchesEvent(filters, e) ==
    /\ fnCall' = [fn |-> "matches_event", filters |-> filters, e |-> e,
                  res |-> MatchesEvent(filters, e)]
    /\ UNCHANGED <<relayVars, limiterVars, rateHist, wsVars, connVars, chanVars, cmVars, violations, subscription_count, ehVars>>

CallValidate(e) ==
    /\ fnCall' = [fn |-> "validate", e |-> e, res |-> Validate(e)]
    /\ UNCHANGED <<relayVars, limiterVars, rateHist, wsVars, connVars, chanVars, cmVars, violations, subscription_count, ehVars>>

InitHist ==
    /\ evAdm = [ip \in Ips |-> 0] /\ evDen = [ip \in Ips |-> 0] /\ evBase = [ip \in Ips |-> 0]
    /\ evSpaced = [ip \in Ips |-> TRUE] /\ evLast = [ip \in Ips |-> -1]
    /\ evLastOk = [ip \in Ips |-> TRUE]
    /\ quAdm = [ip \in Ips |-> 0] /\ quDen = [ip \in Ips |-> 0] /\ quBase = [ip \in Ips |-> 0]

InitLimiter == entries = EmptyMap /\ clock = 0 /\ next_sweep = 0

InitRelay ==
    /\ pc = [c \in Clients |-> "new"]
    /\ frame = [c \in Clients |-> NoFrame]
    /\ sent = [c \in Clients |-> <<>>]
    /\ subscriptions = EmptyMap
    /\ events_tbl = <<>>
    /\ pending = {}

InitWs ==
    /\ wsPc = [c \in Clients |-> "new"]
    /\ wsFrame = [c \in Clients |-> NoFrame]
    /\ wsConns = {}
    /\ wsSubs = [c \in Clients |-> EmptyMap]
    /\ wsRx = [c \in Clients |-> FALSE]
    /\ wsQueue = [c \in Clients |-> <<>>]
    /\ wsClosed = [c \in Clients |-> {}]
    /\ wsEcho = [c \in Clients |-> <<>>]

NoRemove == [ip |-> "none", tracked |-> FALSE, before |-> 0, after |-> 0]
InitConn == attPc = [a \in Attempts |-> "new"] /\ lastRemove = NoRemove

InitChan ==
    /\ chIn = "running" /\ chTodo = <<>> /\ chOut = "unsubscribed" /\ chJoined = FALSE
    /\ chQueue = <<>> /\ chLagged = FALSE
    /\ chFrames = <<>> /\ chLive = 0 /\ chWire = <<>> /\ chLost = {}

\* Connection::new: authenticated false, pubkey None
InitEh ==
    /\ ehAuth = [c \in Clients |-> SetAuthenticated(None)]
    /\ ehAuthBy = [c \in Clients |-> None]
    /\ ehStored = {}
    /\ ehReply = [c \in Clients |-> [ev |-> NoFrame, env |-> "ok", existed |-> FALSE, ok |-> NoFrame]]

InitViol == violations = [c \in Clients |-> [count |-> 0, big |-> FALSE]]

InitMetrics == subscription_count = 0

\* ConnectionManager::new: no connection; the sweep is not running
InitCm ==
    /\ cmConns = {}
    /\ cmLast = [c \in Clients |-> -1]
    /\ cmClock = 0
    /\ cmSweep = NoSweep
    /\ cmRemoved = {}

Init ==
    /\ InitRelay /\ InitLimiter /\ InitHist /\ InitWs /\ InitConn /\ InitChan /\ InitViol /\ InitEh
    /\ InitMetrics /\ InitCm
    /\ fnCall = [fn |-> "none"]

Next ==
    \E c \in Clients :
        \/ WsCheckLimit(c)
        \/ WsAddConnection(c)
        \/ \E sendok \in BOOLEAN : RecvInvalid(c, sendok)
        \/ \E e \in Events, sendok \in BOOLEAN : RecvEvent(c, e, sendok)
        \/ \E dbok \in BOOLEAN, sendok \in BOOLEAN : HandleEventExists(c, dbok, sendok)
        \/ \E dbok \in BOOLEAN, sendok \in BOOLEAN : HandleEventSave(c, dbok, sendok)
        \/ \E sub \in SubIds, filters \in FilterLists, sendok \in BOOLEAN :
              RecvReq(c, sub, filters, sendok)
        \/ HandleReqRegister(c)
        \/ \E dbok \in BOOLEAN, n \in 0..Len(events_tbl) : HandleReqQuery(c, dbok, n)
        \/ \E sendok \in BOOLEAN : HandleReqEose(c, sendok)
        \/ \E sub \in SubIds : RecvClose(c, sub)
        \/ RecvOther(c)
        \/ NextFrame(c)
        \/ Disconnect(c)
        \/ Cleanup(c)
        \/ Release(c)

Spec == Init /\ [][Next]_vars

\* main.rs, backfill: c1 publishes, c2 subscribes with filter lists of which
\* one has two filters selecting the same event
BackfillFilterLists == {<<FKind1, FPk1>>, <<FKind1, FAuthor2>>}
NextBackfill ==
    \/ \E c \in Clients :
          \/ WsCheckLimit(c)
          \/ WsAddConnection(c)
          \/ NextFrame(c)
          \/ Disconnect(c)
          \/ Cleanup(c)
          \/ Release(c)
    \/ \E e \in Events, sendok \in BOOLEAN : RecvEvent("c1", e, sendok)
    \/ \E dbok \in BOOLEAN, sendok \in BOOLEAN : HandleEventExists("c1", dbok, sendok)
    \/ \E dbok \in BOOLEAN, sendok \in BOOLEAN : HandleEventSave("c1", dbok, sendok)
    \/ \E sub \in SubIds, filters \in BackfillFilterLists, sendok \in BOOLEAN :
          RecvReq("c2", sub, filters, sendok)
    \/ HandleReqRegister("c2")
    \/ \E dbok \in BOOLEAN, n \in 0..Len(events_tbl) : HandleReqQuery("c2", dbok, n)
    \/ \E sendok \in BOOLEAN : HandleReqEose("c2", sendok)

SpecBackfill == Init /\ [][NextBackfill]_vars

\* connection.rs: the inactivity sweep beside the sessions' activity
NextSweep ==
    \/ \E c \in Clients : CmAdd(c) \/ CmActivity(c) \/ CmDisconnect(c) \/ CmScan(c) \/ CmRemove(c)
    \/ CmTick
    \/ CmSweepStart
    \/ CmScanEnd

SpecSweep == Init /\ [][NextSweep]_vars

NextRate ==
    \/ \E ip \in Ips :
          \/ RlCheckEvent(ip)
          \/ RlCheckQuery(ip)
          \/ RlCheckConnectionLimit(ip)
          \/ RlAddConnection(ip)
          \/ RlRemoveConnection(ip)
    \/ RlCleanupTask
    \/ Tick

SpecRate == Init /\ [][NextRate]_vars

\* the relay of main.rs fed with events of the replaceable and ephemeral kinds:
\* session c1 publishes, session c2 subscribes to their author
NextKinds ==
    \/ \E c \in Clients :
          \/ WsCheckLimit(c)
          \/ WsAddConnection(c)
          \/ \E dbok \in BOOLEAN, sendok \in BOOLEAN : HandleEventExists(c, dbok, sendok)
          \/ \E dbok \in BOOLEAN, sendok \in BOOLEAN : HandleEventSave(c, dbok, sendok)
          \/ HandleReqRegister(c)
          \/ \E dbok \in BOOLEAN, n \in 0..Len(events_tbl) : HandleReqQuery(c, dbok, n)
          \/ \E sendok \in BOOLEAN : HandleReqEose(c, sendok)
          \/ NextFrame(c)
          \/ Disconnect(c)
          \/ Cleanup(c)
          \/ Release(c)
    \/ \E e \in KindEvents, sendok \in BOOLEAN : RecvEvent("c1", e, sendok)
    \/ \E sendok \in BOOLEAN : RecvReq("c2", SubA, <<FPk1>>, sendok)

SpecKinds == Init /\ [][NextKinds]_vars

\* one connection of websocket.rs: its two tasks and its broadcast channel
ChKinds == {"EVENT", "REQ", "CLOSE", "INVALID"}
NextChan ==
    \/ ChSubscribe
    \/ \E kind \in ChKinds, k \in 0..MaxStored, dbok \in BOOLEAN : ChFrame(kind, k, dbok)
    \/ ChReply
    \/ ChDispatch
    \/ \E sendok \in BOOLEAN : ChRecv(sendok)
    \/ ChClose
    \/ ChJoin

SpecChan == Init /\ [][NextChan]_vars

\* the functions of nostr-types, called with bounded inputs
NextFn ==
    \/ \E f \in PlainFilters \cup TagFilters, e \in MatchEvents : CallMatches(f, e)
    \/ \E filters \in SubscriptionFilters, e \in MatchEvents : CallMatchesEvent(filters, e)
    \/ \E e \in ValidateEvents : CallValidate(e)

SpecFn == Init /\ [][NextFn]_vars

\* one connection of websocket.rs and the EventHandler: EVENT and AUTH frames
EhEnvs == {"ok", "limited", "stale", "exists_err", "store_err"}
NextAuth ==
    \E c \in WsPublishers :
        \/ \E e \in GatedEvents, env \in EhEnvs : EhRecvEvent(c, e, env)
        \/ \E e \in AuthEvents : EhRecvAuth(c, e)

SpecAuth == Init /\ [][NextAuth]_vars

\* the EventHandler fed with events whose id is or is not their digest
NextId ==
    \E c \in Clients, e \in IdEvents, env \in EhEnvs : EhRecvEvent(c, e, env)

SpecId == Init /\ [][NextId]_vars

\* one connection of websocket.rs that asks for one subscription after the
\* other, under the ids s01, s02, .., and may close the one it added last
DecDigits == <<"0", "1", "2", "3", "4", "5", "6", "7", "8", "9">>
SubNo(n) == <<"s", DecDigits[(n \div 10) + 1], DecDigits[(n % 10) + 1]>>
NextSubs ==
    \E c \in WsSubscribers :
        LET n == Cardinality(DOMAIN wsSubs[c])
        IN  \/ WsConnect(c)
            \/ WsSubscribe(c)
            \/ WsOutgoing(c)
            \/ n < MaxSubs /\ WsRecvReq(c, SubNo(n + 1), <<FKind1>>, [ok |-> TRUE, events |-> <<>>])
            \/ WsReqAdd(c)
            \/ n > 0 /\ WsRecvClose(c, SubNo(n))
            \/ WsDisconnect(c)

SpecSubs == Init /\ [][NextSubs]_vars

\* the sessions of main.rs fed with REQ frames that FilterValidator rejects
NextPolicy ==
    \E c \in Clients :
        \/ WsCheckLimit(c)
        \/ WsAddConnection(c)
        \/ \E sub \in SubIds, filters \in PolicyFilterLists, sendok \in BOOLEAN :
              RecvReq(c, sub, filters, sendok)
        \/ HandleReqRegister(c)
        \/ \E dbok \in BOOLEAN, n \in 0..Len(events_tbl) : HandleReqQuery(c, dbok, n)
        \/ \E sendok \in BOOLEAN : HandleReqEose(c, sendok)
        \/ NextFrame(c)
        \/ Disconnect(c)
        \/ Cleanup(c)
        \/ Release(c)

SpecPolicy == Init /\ [][NextPolicy]_vars

\* the sessions of main.rs as the registry and the gauge see them
NextGauge ==
    \E c \in Clients :
        \/ WsCheckLimit(c)
        \/ WsAddConnection(c)
        \/ \E sub \in SubIds, filters \in FilterLists, ok \in BOOLEAN : MxReq(c, sub, filters, ok)
        \/ \E sub \in SubIds : MxClose(c, sub)
        \/ Disconnect(c)
        \/ MxCleanup(c)
        \/ Release(c)

SpecGauge == Init /\ [][NextGauge]_vars

\* the sessions of main.rs fed with undecodable frames
NextViol ==
    \E c \in Clients :
        \/ WsCheckLimit(c)
        \/ WsAddConnection(c)
        \/ \E big \in BOOLEAN, sendok \in BOOLEAN : RecvProtocolError(c, big, sendok)
        \/ NextFrame(c)
        \/ Disconnect(c)
        \/ Cleanup(c)
        \/ Release(c)

SpecViol == Init /\ [][NextViol]_vars

NextConn ==
    \/ \E a \in Attempts : AttCheck(a) \/ AttAdd(a) \/ AttRelease(a)
    \/ RlCleanupTask
    \/ Tick

SpecConn == Init /\ [][NextConn]_vars

WsQueryResults(filters) ==
    {[ok |-> FALSE, events |-> <<>>], [ok |-> TRUE, events |-> <<>>]} \cup
    {[ok |-> TRUE, events |-> <<e>>] : e \in {x \in Events : Verify(x) /\ MatchesEvent(filters, x)}}

NextWs ==
    \/ \E c \in Clients :
          \/ WsConnect(c)
          \/ WsSubscribe(c)
          \/ WsOutgoing(c)
          \/ WsBroadcast(c)
          \/ \E d \in Clients : WsFanMatch(c, d)
          \/ \E sub \in SubIds : WsFanSend(c, sub)
          \/ WsFanDone(c)
          \/ WsReqAdd(c)
          \/ WsDisconnect(c)
    \/ \E c \in WsPublishers :
          \E e \in Events, out \in {"accepted", "rejected", "error"} : WsRecvEvent(c, e, out)
    \/ \E c \in WsSubscribers :
          \/ \E sub \in SubIds, filters \in FilterLists :
                \E res \in WsQueryResults(filters) : WsRecvReq(c, sub, filters, res)
          \/ \E sub \in SubIds : WsRecvClose(c, sub)

SpecWs == Init /\ [][NextWs]_vars

\* websocket.rs with a connection that both publishes and subscribes
NextEcho ==
    \/ \E c \in Clients :
          \/ WsConnect(c)
          \/ WsSubscribe(c)
          \/ WsOutgoing(c)
          \/ WsBroadcast(c)
          \/ \E d \in Clients : WsFanMatch(c, d)
          \/ \E sub \in SubIds : WsFanSend(c, sub)
          \/ WsFanDone(c)
          \/ WsReqAdd(c)
    \/ \E c \in WsPublishers :
          \/ \E e \in Events, out \in {"accepted", "rejected", "error"} : WsRecvEvent(c, e, out)
          \/ \E sub \in SubIds : WsRecvClose(c, sub)
          \/ \E sub \in SubIds : WsRecvReq(c, sub, <<FSince150>>, [ok |-> TRUE, events |-> <<>>])
    \/ \E c \in WsSubscribers :
          WsRecvReq(c, SubA, <<FKind1, FAuthor2>>, [ok |-> TRUE, events |-> <<>>])

SpecEcho == Init /\ [][NextEcho]_vars

\* websocket.rs with subscriptions of which several filters match one event
FanFilterLists == {<<FAuthor2, FSince150>>, <<FKind1>>}
NextFan ==
    \/ \E c \in Clients :
          \/ WsConnect(c)
          \/ WsSubscribe(c)
          \/ WsOutgoing(c)
          \/ WsBroadcast(c)
          \/ \E d \in Clients : WsFanMatch(c, d)
          \/ \E sub \in SubIds : WsFanSend(c, sub)
          \/ WsFanDone(c)
          \/ WsReqAdd(c)
          \/ WsDisconnect(c)
    \/ \E c \in WsPublishers :
          \E e \in Events, out \in {"accepted", "rejected"} : WsRecvEvent(c, e, out)
    \/ \E c \in WsSubscribers :
          \/ \E sub \in SubIds, filters \in FanFilterLists :
                WsRecvReq(c, sub, filters, [ok |-> TRUE, events |-> <<>>])
          \/ \E sub \in SubIds : WsRecvClose(c, sub)

SpecFan == Init /\ [][NextFan]_vars

\* ------------------------------------------------------------ claims, main.rs

Ended(c) == pc[c] \in {"release", "ended", "refused"}
HasFrame(c, f) == \E i \in 1..Len(sent[c]) : sent[c][i] = f
ReqAnswered(c) ==
    /\ pc[c] = "done"
    /\ frame[c].t = "REQ"
    /\ Len(sent[c]) > 0
    /\ sent[c][Len(sent[c])].t = "EOSE"

\* C1: an event accepted and stored while a session holds a live matching
\* subscription (registered, EOSE sent, the session waiting for its next frame)
\* has been sent to that session as EVENT(sub_id, e) by the time the publisher's
\* handler has returned: main.rs has no other task that holds the event.
C1_LiveFanout ==
    \A p \in pending : pc[p.from] = "done" => HasFrame(p.to, EventMsg(p.sub, p.ev))

\* C2: when several sessions publish the same id, the table holds one row of
\* that id and, among the publishers answered OK true, exactly one is answered
\* as newly inserted (empty message), the others as duplicates.
C2_IdempotentInsert ==
    /\ \A i, j \in 1..Len(events_tbl) : events_tbl[i].id = events_tbl[j].id => i = j
    /\ \A a, b \in Clients :
          /\ a # b
          /\ pc[a] = "done" /\ pc[b] = "done"
          /\ frame[a].t = "EVENT" /\ frame[b].t = "EVENT"
          /\ frame[a].ev.id = frame[b].ev.id
          /\ HasFrame(a, OkMsg(frame[a].ev.id, TRUE, ""))
          => ~HasFrame(b, OkMsg(frame[b].ev.id, TRUE, ""))

\* C3: the step of handle_event_message that finds the id of a verified EVENT
\* in the store answers OK(id, true, "duplicate: event already exists") (or the
\* store call or the send fails and the session ends); it changes neither the
\* store nor any other session's socket, and it owes no delivery.
C3_DuplicateStep(c) ==
    /\ pc[c] = "ev_exists"
    /\ EventExists(events_tbl, frame[c].ev.id)
    /\ pc'[c] # pc[c]
    => /\ events_tbl' = events_tbl
       /\ pending' = pending
       /\ \A b \in Clients \ {c} : sent'[b] = sent[b]
       /\ \/ /\ pc'[c] = "done"
             /\ sent'[c] = <<OkMsg(frame[c].ev.id, TRUE, "duplicate: event already exists")>>
          \/ /\ pc'[c] = "cleanup"
             /\ sent'[c] = <<>>
C3_Duplicate == [][\A c \in Clients : C3_DuplicateStep(c)]_vars
C3_Witness ==
    \E c \in Clients :
        /\ pc[c] = "done"
        /\ frame[c].t = "EVENT"
        /\ sent[c] = <<OkMsg(frame[c].ev.id, TRUE, "duplicate: event already exists")>>
        /\ Len(events_tbl) = 1

\* C4: an EVENT whose verification fails is answered with
\* OK(id, false, "invalid: bad signature"), and no row of its id is ever stored.
C4_BadSignature ==
    /\ \A e \in Events : ~Verify(e) => ~EventExists(events_tbl, e.id)
    /\ \A c \in Clients :
          /\ pc[c] = "done"
          /\ frame[c].t = "EVENT"
          /\ ~Verify(frame[c].ev)
          /\ Len(sent[c]) > 0
          /\ sent[c][1].t = "OK"
          => sent[c] = <<OkMsg(frame[c].ev.id, FALSE, "invalid: bad signature")>>

\* C5: an admitted REQ whose queries succeed is answered with the EVENT frames
\* of the stored events its filters select, all carrying sub_id, and then one
\* EOSE(sub_id), which is the last frame; the subscription is registered then.
C5_BackfillThenEose ==
    \A c \in Clients :
        ReqAnswered(c) =>
            LET f == frame[c]
                n == Len(sent[c])
            IN  /\ sent[c][n] = EoseMsg(f.sub)
                /\ \A i \in 1..(n - 1) :
                      /\ sent[c][i].t = "EVENT"
                      /\ sent[c][i].sub = f.sub
                      /\ sent[c][i].ev \in InsertedEvents(events_tbl)
                /\ \A e \in f.stored :
                      (\E i \in 1..Len(f.filters) : Matches(f.filters[i], e))
                          => HasFrame(c, EventMsg(f.sub, e))
                /\ c \in DOMAIN subscriptions
                /\ \A i \in 1..Len(f.filters) :
                      FilterKey(f.sub, i - 1) \in DOMAIN subscriptions[c]

\* C7: the registry holds no subscription of a session that has ended, and
\* every entry of the registry belongs to a session inside its inbound loop.
C7_EndedNoSubscriptions ==
    \A c \in Clients :
        /\ Ended(c) => c \notin DOMAIN subscriptions
        /\ c \in DOMAIN subscriptions => pc[c] \notin {"new", "admitted", "refused", "release", "ended"}
C7_Witness ==
    \E c, d \in Clients :
        /\ pc[c] = "ended"
        /\ frame[c].t = "REQ"
        /\ frame[c].qi > 1
        /\ d \in DOMAIN subscriptions
        /\ DOMAIN subscriptions[d] # {}

\* C8: once a REQ is registered, the registry holds for its subscription id
\* exactly the filters of that REQ.
C8_ReqReplaces ==
    \A c \in Clients :
        pc[c] \in {"req_query", "req_eose"} =>
            LET f == frame[c]
            IN  /\ c \in DOMAIN subscriptions
                /\ {k \in DOMAIN subscriptions[c] : SubOfKey(k) = f.sub}
                      = {FilterKey(f.sub, i - 1) : i \in 1..Len(f.filters)}
                /\ \A i \in 1..Len(f.filters) :
                      subscriptions[c][FilterKey(f.sub, i - 1)] = f.filters[i]

\* ------------------------------------------------------------ claims, rate limiter

\* C9: between two prunings of an address's entry (while no timestamp leaves
\* the window the limiter holds), check_event_rate and check_query_rate admit
\* exactly the calls that find fewer than N timestamps held and deny every
\* later one; a denied call records nothing, so the timestamps held are those
\* held at the pruning plus the admitted calls, and every call beyond is a denial.
C9_ExactAdmission ==
    \A ip \in Ips :
        /\ evAdm[ip] <= EventsPerMinute - evBase[ip]
        /\ evDen[ip] > 0 => evAdm[ip] = EventsPerMinute - evBase[ip]
        /\ Len(Held(entries, ip).events) = evBase[ip] + evAdm[ip]
        /\ quAdm[ip] <= QueriesPerMinute - quBase[ip]
        /\ quDen[ip] > 0 => quAdm[ip] = QueriesPerMinute - quBase[ip]
        /\ Len(Held(entries, ip).queries) = quBase[ip] + quAdm[ip]
C9_Witness ==
    \E ip \in Ips :
        /\ evBase[ip] = 0 /\ evAdm[ip] = EventsPerMinute /\ evDen[ip] = 2
        /\ quBase[ip] = 0 /\ quAdm[ip] = QueriesPerMinute /\ quDen[ip] = 2

\* C10: an address whose check_event_rate calls are each more than 60 seconds
\* after the one before is never denied.
C10_WindowSlides ==
    \A ip \in Ips : evSpaced[ip] => evLastOk[ip]

\* ------------------------------------------------------------ claims, websocket.rs

\* C6: a fanout step never enqueues EVENT(sub_id, e) to a connection that had
\* processed CLOSE(sub_id), and had not added sub_id again, when e was accepted.
C6_FanoutStep(p) ==
    /\ wsPc[p] = "fan_send"
    /\ wsFrame'[p] # wsFrame[p]
    /\ wsFrame'[p].t = "EVENT"
    => \A sub \in wsFrame[p].subs \ wsFrame'[p].subs :
          <<wsFrame[p].cur, sub>> \notin wsFrame[p].closed
C6_CloseCancels == [][\A p \in Clients : C6_FanoutStep(p)]_vars
C6_Witness ==
    \E p, c \in Clients, sub \in SubIds :
        /\ wsPc[p] = "fan_send"
        /\ wsFrame[p].cur = c
        /\ <<c, sub>> \in wsFrame[p].closed
        /\ wsFrame[p].subs # {}
        /\ wsQueue[p] = <<OkMsg(wsFrame[p].ev.id, TRUE, "")>>

\* ------------------------------------------------------------ claims, connections

\* C11: the connections accounted to an address never exceed connections_per_ip,
\* whatever the interleaving of the attempts' check_connection_limit and
\* add_connection.
C11_ConnectionLimit ==
    \A ip \in Ips : Held(entries, ip).connections <= ConnectionsPerIp

\* C12: remove_connection never takes a count below zero: called at zero, or
\* for an address that is not tracked, it leaves zero; otherwise it takes one
\* off; no count of the limiter is ever negative.
C12_RemoveSaturates ==
    /\ \A ip \in DOMAIN entries : entries[ip].connections >= 0
    /\ lastRemove.ip # "none" =>
          /\ lastRemove.after >= 0
          /\ lastRemove.before = 0 => lastRemove.after = 0
          /\ lastRemove.before > 0 => lastRemove.after = lastRemove.before - 1
C12_Witness ==
    /\ lastRemove.ip \in Ips
    /\ lastRemove.tracked
    /\ lastRemove.before = 0
    /\ lastRemove.after = 0
    /\ lastRemove.ip \in DOMAIN entries

\* ------------------------------------------------------------ claims, queries

Range(q) == {q[i] : i \in 1..Len(q)}
MatchingStored(tbl, f) == {e \in InsertedEvents(tbl) : Matches(f, e)}

\* C13: for every store and every filter without a limit, query(f) returns
\* exactly the stored events that f matches, each once; after insert(e1) the
\* query by ids = [e1] returns [e1].
C13_StoreMatchConsistency ==
    \A f \in {g \in QueryFilters : g.limit = None} :
        \A r \in GetEvents(events_tbl, f) :
            /\ Range(r) = MatchingStored(events_tbl, f)
            /\ Len(r) = Cardinality(MatchingStored(events_tbl, f))

\* the order of ids ("e1" < "e2" < "e3")
IdRank == [id \in {"e1", "e2", "e3"} |-> CASE id = "e1" -> 1 [] id = "e2" -> 2 [] OTHER -> 3]
ComesBefore(a, b) ==
    \/ a.created_at > b.created_at
    \/ a.created_at = b.created_at /\ IdRank[a.id] < IdRank[b.id]
Ordered(S) ==
    CHOOSE q \in [1..Cardinality(S) -> S] :
        \A i, j \in 1..Cardinality(S) : i < j => ComesBefore(q[i], q[j])
LimitOf(f) == IF f.limit = None THEN 5000 ELSE Min(CHOOSE l \in f.limit : TRUE, 5000)

\* C14: query(f) is the sequence of the stored events f matches, by created_at
\* descending and id ascending on a tie, cut after min(f.limit, 5000) events.
C14_QueryOrder ==
    \A f \in QueryFilters :
        \A r \in GetEvents(events_tbl, f) :
            LET all == Ordered(MatchingStored(events_tbl, f))
            IN  r = SubSeq(all, 1, Min(Len(all), LimitOf(f)))

\* ------------------------------------------------------------ claims, event kinds

\* C15: for each pubkey and replaceable kind the table holds at most one event,
\* and no stored event of a replaceable kind is older than (or ties with a
\* greater id than) another accepted event of its pubkey and kind.  Every
\* accepted insert is a row: nothing else writes the table.
C15_ReplaceableKinds ==
    \A a, b \in InsertedEvents(events_tbl) :
        IsReplaceable(a) /\ a.pubkey = b.pubkey /\ a.kind = b.kind => a = b

\* C16: once an EVENT of an ephemeral kind has been handled and accepted, no row
\* of its id exists, and the event has been sent to the matching live
\* subscriptions.
C16_EphemeralNotStored ==
    \A c \in Clients :
        /\ pc[c] = "done"
        /\ frame[c].t = "EVENT"
        /\ IsEphemeral(frame[c].ev)
        /\ HasFrame(c, OkMsg(frame[c].ev.id, TRUE, ""))
        => /\ ~EventExists(events_tbl, frame[c].ev.id)
           /\ \A p \in pending : p.from = c => HasFrame(p.to, EventMsg(p.sub, p.ev))

\* ------------------------------------------------------------ claims, protocol errors

\* C19: the step that receives a frame that is no client message writes the
\* NOTICE "Invalid message format" to the sending session and returns to the
\* inbound loop (unless the write itself fails on the transport, which ends the
\* loop), and changes neither the subscription registry nor the event table; the
\* next step of that session is to wait for its next frame.
C19_InvalidStep(c) ==
    /\ frame'[c].t = "INVALID" /\ pc[c] = "open" /\ pc'[c] # "open"
       => /\ subscriptions' = subscriptions
          /\ events_tbl' = events_tbl
          /\ \/ sent'[c] = <<NoticeMsg("Invalid message format")>> /\ pc'[c] = "done"
             \/ sent'[c] = <<>> /\ pc'[c] = "cleanup"
          /\ \A b \in Clients \ {c} : sent'[b] = sent[b] /\ pc'[b] = pc[b]
    /\ frame[c].t = "INVALID" /\ pc[c] = "done" /\ pc'[c] # "done"
       => pc'[c] = "open" /\ subscriptions' = subscriptions /\ events_tbl' = events_tbl
C18_QueueOverflow ==
    /\ Len(chQueue) <= ChannelCapacity
    /\ \A l \in chLost : l.why = "overwritten" => l.msg.t = "EVENT"
    /\ \A l \in chLost : l.msg.t # "EVENT" => Len(chFrames) = l.at

\* C17: the replies written to the socket are in the order of the inbound
\* frames they answer (a reply to an earlier frame is never written after a
\* reply to a later one), and each of them answers a frame the session sent:
\* an OK answers an EVENT frame, an EVENT, EOSE or NOTICE reply a REQ frame.
C17_SessionOrder ==
    /\ \A i, j \in 1..Len(chWire) :
          i < j /\ chWire[i].no # 0 /\ chWire[j].no # 0 => chWire[i].no <= chWire[j].no
    /\ \A i \in 1..Len(chWire) :
          LET m == chWire[i]
          IN  IF m.no = 0
              THEN m.t = "EVENT" /\ \E n \in 1..Len(chFrames) : chFrames[n] = "REQ"
              ELSE /\ m.no \in 1..Len(chFrames)
                   /\ chFrames[m.no] = (IF m.t = "OK" THEN "EVENT" ELSE "REQ")
C17_Witness ==
    \E i, j \in 1..Len(chWire) :
        /\ i < j
        /\ chWire[i].no # 0
        /\ chWire[i].no < chWire[j].no

\* C20: a session that has sent its fifth undecodable frame (the clock does not
\* advance here: all of them fall within one minute), or an undecodable frame
\* above 64 KiB, has been sent its NOTICE and is closing: it does not go back to
\* waiting for a further inbound frame.
C20_ViolationBudget ==
    \A c \in Clients :
        violations[c].count >= 5 \/ violations[c].big
            => pc[c] \in {"done", "cleanup", "release", "ended"}

\* ------------------------------------------------------------ claims, store failures

\* C21: a store failure while an EVENT is handled is answered with an OK whose
\* status is false, and the session stays open.  The existence check of an event
\* that is in no row either lets the handler go on to the write or fails; the
\* write of an event that is in no row afterwards has failed.  In both cases the
\* session gets an OK(id, false, ..) and returns to its inbound loop, unless the
\* write of that OK to the socket fails.
C21_FailureStep(c) ==
    LET e == frame[c].ev
        refused == \E i \in 1..Len(sent'[c]) :
                       /\ sent'[c][i].t = "OK"
                       /\ sent'[c][i].id = e.id
                       /\ sent'[c][i].status = FALSE
    IN  /\ pc[c] = "ev_exists" /\ ~EventExists(events_tbl, e.id) /\ pc'[c] # "ev_exists"
           => pc'[c] = "ev_save" \/ (pc'[c] = "done" /\ refused)
        /\ pc[c] = "ev_save" /\ ~EventExists(events_tbl', e.id) /\ pc'[c] = "done"
           => refused
C21_StoreFailure == [][\A c \in Clients : C21_FailureStep(c)]_vars

\* ------------------------------------------------------------ claims, subscription policy

\* C22: a REQ whose filter list the validator rejects, and whose query the rate
\* limiter admitted, reaches neither the registration nor the store query, and
\* once handled it has been answered with a CLOSED for its subscription id and
\* has registered no filter under that id.
C22_InvalidReqClosed ==
    \A c \in Clients :
        /\ frame[c].t = "REQ"
        /\ ValidateSubscriptionFilters(frame[c].filters) # "ok"
        => /\ pc[c] \notin {"req_query", "req_eose"}
           /\ c \in DOMAIN subscriptions =>
                 \A k \in DOMAIN subscriptions[c] : ~StartsWith(k, frame[c].sub \o <<":">>)
           /\ pc[c] = "done" /\ ~HasFrame(c, NoticeMsg("Query rate limit exceeded"))
                 => \E i \in 1..Len(sent[c]) : sent[c][i].t = "CLOSED" /\ sent[c][i].sub = frame[c].sub

\* C23: no connection holds more subscriptions than
\* MAX_SUBSCRIPTIONS_PER_CONNECTION.
C23_SubscriptionLimit ==
    \A c \in Clients : Cardinality(DOMAIN wsSubs[c]) <= MaxSubscriptionsPerConnection

\* ------------------------------------------------------------ claims, authentication

\* C24: a connection is authenticated only by an AUTH event of the auth kind
\* with a valid signature, a relay tag naming this relay and a challenge tag
\* carrying the nonce issued to that connection, and its pubkey is then that
\* event's pubkey.
RelayUrl == "wss://relay"
Nonce == [c \in Clients |-> IF c = "c1" THEN "n1" ELSE "n2"]
HasTag(e, tag) == \E i \in 1..Len(e.tags) : e.tags[i] = tag
C24_AuthOnlyByChallenge ==
    \A c \in Clients :
        ehAuth[c].authenticated =>
            \E e \in ehAuthBy[c] :
                /\ e.kind = AuthKind
                /\ Verify(e)
                /\ HasTag(e, <<"relay", RelayUrl>>)
                /\ HasTag(e, <<"challenge", Nonce[c]>>)
                /\ ehAuth[c].pubkey = Some(e.pubkey)

\* C25: every event of kind 4 that was stored came from a connection that was
\* authenticated, and every event of kind 5 that was stored came from a
\* connection authenticated with the event's pubkey.
C25_AuthGatesKinds ==
    \A r \in ehStored :
        /\ r.ev.kind = 4 => r.auth.authenticated
        /\ r.ev.kind = 5 => r.auth.authenticated /\ r.auth.pubkey = Some(r.ev.pubkey)
C25_Witness ==
    /\ \E r \in ehStored : r.ev.kind = 4
    /\ \E r \in ehStored : r.ev.kind = 5
    /\ \E c \in Clients :
          /\ ehReply[c].ev # NoFrame
          /\ ehReply[c].ev.kind = 5
          /\ ehReply[c].env = "ok"
          /\ ~ehReply[c].existed
          /\ ehReply[c].ok.status = FALSE
          /\ ehAuth[c].authenticated
          /\ ehAuth[c].pubkey # Some(ehReply[c].ev.pubkey)

\* C26: an EVENT that passed the limiter and the validation and whose id is
\* already stored is answered with an OK whose status is true.
C26_WsDuplicateOk ==
    \A c \in Clients :
        /\ ehReply[c].ev # NoFrame
        /\ ehReply[c].env = "ok"
        /\ ehReply[c].existed
        => ehReply[c].ok.status = TRUE

\* ------------------------------------------------------------ claims, nostr-types functions

\* C27: for a filter without tag clause, Filter::matches is true iff e.id is in
\* ids, e.pubkey in authors, e.kind in kinds, since <= e.created_at and
\* e.created_at <= until, for each of these clauses that is present; the filter
\* with no clause matches every event; a subscription matches iff one of its
\* filters does.
ClausesHold(f, e) ==
    /\ f.ids # None => \E ids \in f.ids : e.id \in ids
    /\ f.authors # None => \E authors \in f.authors : e.pubkey \in authors
    /\ f.kinds # None => \E kinds \in f.kinds : e.kind \in kinds
    /\ f.since # None => \E since \in f.since : since <= e.created_at
    /\ f.until # None => \E until \in f.until : e.created_at <= until
C27_FilterMatches ==
    /\ fnCall.fn = "matches" /\ DOMAIN fnCall.f.tags = {}
          => fnCall.res = ClausesHold(fnCall.f, fnCall.e)
    /\ fnCall.fn = "matches" /\ fnCall.f = NoFilter => fnCall.res = TRUE
    /\ fnCall.fn = "matches_event"
          => fnCall.res = \E i \in 1..Len(fnCall.filters) : ClausesHold(fnCall.filters[i], fnCall.e)
C27_Witness ==
    /\ fnCall.fn = "matches"
    /\ fnCall.f.since = Some(fnCall.e.created_at)
    /\ fnCall.f.until = Some(fnCall.e.created_at)
    /\ fnCall.f.kinds = Some({1, 7})
    /\ fnCall.res = TRUE

\* C28: a filter built with the single clause #X -> {v} matches an event iff
\* the event has a tag whose name is X and whose second element is v.
C28_TagClause ==
    \A name \in {"e", "p"} :
        fnCall.fn = "matches" /\ fnCall.f = FilterTag(NoFilter, name, "v1")
            => fnCall.res = \E i \in 1..Len(fnCall.e.tags) :
                                /\ Len(fnCall.e.tags[i]) >= 2
                                /\ fnCall.e.tags[i][1] = name
                                /\ fnCall.e.tags[i][2] = "v1"

\* C29: Event::validate on an event whose content is longer than
\* MAX_CONTENT_LENGTH returns ContentTooLong.
C29_ContentTooLong ==
    fnCall.fn = "validate" /\ fnCall.e.clen > MaxContentLength => fnCall.res = "ContentTooLong"

\* C30: in the handling of an accepted EVENT frame the OK is passed to
\* send_message before any copy of the event is passed to it for any
\* connection, and a publisher whose own subscription matches is given the OK
\* before its own copy by its outbound task.
C30_OkBeforeFanout ==
    \A c \in Clients :
        \A i \in 1..Len(wsEcho[c]) :
            wsEcho[c][i].msg.t = "EVENT" =>
                /\ \E j \in 1..(i - 1) : wsEcho[c][j].msg = OkMsg(wsEcho[c][i].msg.ev.id, TRUE, "")
                /\ wsEcho[c][i].to = c /\ wsEcho[c][i].seen =>
                       \E j \in 1..(i - 1) : wsEcho[c][j].msg.t = "OK" /\ wsEcho[c][j].seen

\* C31: an event accepted after a REQ was received is delivered on that
\* subscription when it matches: when the fanout of the event visits a
\* connection whose REQ, received and queried before the event was accepted, is
\* not yet registered, the event is in the backfill of that REQ or it is sent
\* live under the subscription id of the REQ.
C31_MissStep(c, d) ==
    /\ wsPc[c] = "fan_match"
    /\ d \in wsFrame[c].conns
    /\ wsFrame'[c].conns = wsFrame[c].conns \ {d}
    /\ d \in wsFrame[c].inreq
    /\ wsPc[d] = "req_add"
    /\ MatchesEvent(wsFrame[d].filters, wsFrame[c].ev)
    => \/ \E i \in 1..Len(wsFrame[d].backfill) : wsFrame[d].backfill[i] = wsFrame[c].ev
       \/ wsFrame[d].sub \in wsFrame'[c].subs
C31_NoMissedEvent == [][\A c, d \in Clients : C31_MissStep(c, d)]_vars

\* the EVENT frames of wsEcho[c] sent to connection d under subscription id sub
EchoCopies(c, d, sub) ==
    {i \in 1..Len(wsEcho[c]) :
        /\ wsEcho[c][i].msg.t = "EVENT"
        /\ wsEcho[c][i].to = d
        /\ wsEcho[c][i].msg.sub = sub}

\* C32: in the fanout of one accepted event, once the sends to a connection
\* are over, that connection was sent exactly one EVENT frame for each of the
\* subscriptions it held when it was asked that match the event, however many
\* of their filters match, and none under any other subscription id; during
\* the sends every matching subscription has its one frame sent or still due.
C32_OnePerSubscription ==
    \A c \in Clients :
        wsPc[c] \in {"fan_match", "fan_send"} /\ wsFrame[c].cur \notin wsFrame[c].conns =>
            LET d == wsFrame[c].cur
                due(sub) == IF sub \in wsFrame[c].subs THEN 1 ELSE 0
            IN  \A sub \in SubIds :
                    Cardinality(EchoCopies(c, d, sub)) + due(sub) =
                        IF sub \in DOMAIN wsFrame[c].live /\ MatchesEvent(wsFrame[c].live[sub], wsFrame[c].ev)
                        THEN 1 ELSE 0
C32_Witness ==
    \E c, d \in Clients :
        /\ wsPc[c] = "fan_match"
        /\ wsFrame[c].cur = d
        /\ d # c
        /\ DOMAIN wsFrame[c].live = SubIds
        /\ \A sub \in SubIds : Cardinality(EchoCopies(c, d, sub)) = 1
        /\ \E sub \in SubIds :
              /\ Len(wsFrame[c].live[sub]) = 2
              /\ \A i \in 1..2 : Matches(wsFrame[c].live[sub][i], wsFrame[c].ev)

\* the timestamps of a sequence that are less than WindowSecs old
Recent(ts, now) == {i \in 1..Len(ts) : now - ts[i] < WindowSecs}

\* C33: a sweep removes the entry of an address only if the entry holds no
\* event and no query timestamp less than 60 s old and counts no connection,
\* and it leaves the connection count of every address that has connections
\* as it was.
C33_SweepStep ==
    next_sweep' # next_sweep =>
        \A ip \in DOMAIN entries :
            /\ ip \notin DOMAIN entries' =>
                   /\ Recent(entries[ip].events, clock) = {}
                   /\ Recent(entries[ip].queries, clock) = {}
                   /\ entries[ip].connections = 0
            /\ entries[ip].connections > 0 =>
                   /\ ip \in DOMAIN entries'
                   /\ entries'[ip].connections = entries[ip].connections
C33_SweepEvicts == [][C33_SweepStep]_vars
C33_Witness == \E ip \in Ips : evLast[ip] >= 0 /\ ip \notin DOMAIN entries /\ next_sweep > CleanupIntervalSecs

\* C34: every event the EventHandler has stored carries as id the digest of
\* its canonical form; an event whose id field is another value is rejected
\* even when its signature over the digest is valid.
C34_StoredIdIsDigest == \A r \in ehStored : VerifyId(r.ev)

\* C35: handling CLOSE(sub_id) of session c leaves registered, with their
\* filters, every subscription of c whose id is not sub_id and every
\* subscription of every other session.
C35_CloseStep(c) ==
    /\ pc[c] = "open"
    /\ frame'[c].t = "CLOSE"
    /\ pc'[c] = "done"
    => /\ \A d \in DOMAIN subscriptions \ {c} :
             d \in DOMAIN subscriptions' /\ subscriptions'[d] = subscriptions[d]
       /\ c \in DOMAIN subscriptions =>
             \A k \in DOMAIN subscriptions[c] :
                 SubOfKey(k) # frame'[c].sub =>
                     /\ k \in DOMAIN subscriptions'[c]
                     /\ subscriptions'[c][k] = subscriptions[c][k]
C35_CloseOnlyNamed == [][\A c \in Clients : C35_CloseStep(c)]_vars

\* the subscriptions registered: the subscription ids of each session that
\* have a key in the registry
Registered ==
    UNION {{<<c, SubOfKey(k)>> : k \in DOMAIN subscriptions[c]} : c \in DOMAIN subscriptions}

\* C36: the gauge of active subscriptions equals the number of subscriptions
\* registered and is never negative.
C36_GaugeIsCount ==
    /\ subscription_count = Cardinality(Registered)
    /\ subscription_count >= 0

\* C37: the connection count the limiter holds for an address is the number
\* of sessions of that address whose add_connection has returned and whose
\* remove_connection has not run yet: an ended session has given its slot
\* back, a refused attempt has neither taken nor given back one.
C37_ConnectionCount ==
    \A ip \in Ips :
        Held(entries, ip).connections =
            Cardinality({a \in Attempts : AttemptIp[a] = ip /\ attPc[a] = "live"})
C37_Witness ==
    /\ \E a \in Attempts : attPc[a] = "ended"
    /\ \E a \in Attempts : attPc[a] = "refused"
    /\ \E a \in Attempts : attPc[a] = "live"
    /\ next_sweep > CleanupIntervalSecs

\* C38: a reply the inbound task passes to Connection::send_message is kept
\* for the outbound task, also when the inbound task handles its first frames
\* before handle_socket has subscribed the outbound receiver: as long as the
\* receiver is not subscribed, no reply to a frame has been discarded.
C38_RepliesReachOutbound ==
    chOut = "unsubscribed" => \A l \in chLost : l.msg.no = 0

\* C39: among the frames handle_req_message has written for a REQ, no stored
\* event appears in more than one EVENT frame of the subscription, also when
\* several filters of the REQ select it.
BackfillCopies(c, e) ==
    {i \in 1..Len(sent[c]) : sent[c][i] = EventMsg(frame[c].sub, e)}
C40_RemovedIsInactive ==
    \A r \in cmRemoved : Inactive(r.at, r.last, TimeoutSecs)

====
